---- MODULE Spec2Model ----
(***************************************************************************)
(* A model of the serialport crate's settings model (src/lib.rs): the     *)
(* SerialPortBuilder and its setters, the error-kind conversions, the      *)
(* integer and string conversions of the settings enums, and the udev      *)
(* MODALIAS parser of the Linux enumerator (src/posix/enumerate.rs).       *)
(***************************************************************************)
EXTENDS Integers, Sequences, FiniteSets, TLC

VARIABLES
    builder,   \* the current SerialPortBuilder value
    prev,      \* the builder value the last call consumed
    call,      \* the last builder call: its name and its arguments
    chain,     \* a value and the results of the conversions applied to it
    moda,      \* the MODALIAS string handed to parse_modalias (UTF-8 bytes)
    minfo,     \* the result of parse_modalias, or Pending before the call
    device,    \* the udev device handed to the classifier
    lookup,    \* the last call on the device and its result
    platform,  \* the platform whose available_ports is running
    candidates, \* the candidate devices the platform hands to the scan
    pc,        \* the position of available_ports: setup, loop or returned
    pos,       \* the number of candidates the loop has taken
    vec,       \* the list of SerialPortInfo built so far
    ret,       \* the value available_ports returned, None before it returns
    opened,    \* the builders available_ports called open() on, in order
    native,    \* the native device of an open port: line settings, pins, buffers
    handles,   \* the settings cached by each handle of the device
    invoked,   \* the last call on a handle: operation, argument, result
    ncalls,    \* the number of calls made on the handles
    sender,    \* the sending port of a loopback: its line settings and queue
    line,      \* the frames on the wire between the two ports
    receiver,  \* the receiving port: its line settings and the bytes read
    devtree,   \* the device tree: what CM_Get_Parent answers for each instance
    iterator,  \* the ParentInstances iterator: its field `instance`
    yielded,   \* the values the calls of next() returned, in order
    queried    \* the instances CM_Get_Parent was called with, in order

vars == <<builder, prev, call, chain, moda, minfo, device, lookup,
         platform, candidates, pc, pos, vec, ret, opened,
         native, handles, invoked, ncalls,
         sender, line, receiver,
         devtree, iterator, yielded, queried>>

\* The variables of available_ports.
scanVars == <<platform, candidates, pc, pos, vec, ret, opened>>

\* The variables of an open port and its handles.
portVars == <<native, handles, invoked, ncalls>>

\* The variables of a loopback between two ports.
linkVars == <<sender, line, receiver>>

\* The variables of a ParentInstances iterator.
cmVars == <<devtree, iterator, yielded, queried>>

\* The variables of the udev classifier.
udevVars == <<device, lookup>>

(***************************************************************************)
(* Settings enums                                                          *)
(***************************************************************************)
DataBits == {"Five", "Six", "Seven", "Eight"}

Parity == {"None", "Odd", "Even"}

StopBits == {"One", "Two"}

FlowControl == {"None", "Software", "Hardware"}

\* Duration::from_millis: whole seconds and the remaining nanoseconds.
from_millis(ms) == [secs |-> ms \div 1000, nanos |-> (ms % 1000) * 1000000]

\* Input domains of the builder calls.
Paths == {"/dev/ttyUSB0", "COM3", ""}

BaudRates == {0, 9600, 2147483647}

Timeouts == {from_millis(0), from_millis(1500)}

NoBuilder == [none |-> TRUE]

Idle == [idle |-> TRUE]

\* No device is being classified.
IdleUdev ==
    /\ device = Idle
    /\ lookup = Idle

\* No scan is running.
IdleScan ==
    /\ platform = Idle
    /\ candidates = <<>>
    /\ pc = Idle
    /\ pos = 0
    /\ vec = <<>>
    /\ ret = <<>>
    /\ opened = <<>>

\* No port is open.
IdlePort ==
    /\ native = Idle
    /\ handles = <<>>
    /\ invoked = Idle
    /\ ncalls = 0

\* No loopback is set up.
IdleLink ==
    /\ sender = Idle
    /\ line = <<>>
    /\ receiver = Idle

\* No parent iterator exists.
IdleCm ==
    /\ devtree = <<>>
    /\ iterator = Idle
    /\ yielded = <<>>
    /\ queried = <<>>

BuilderFields ==
    {"path", "baud_rate", "data_bits", "flow_control", "parity",
     "stop_bits", "timeout"}

(***************************************************************************)
(* serialport::new and the SerialPortBuilder setters                       *)
(***************************************************************************)
new_wrong_default(p, b) ==
    [path |-> p, baud_rate |-> b, data_bits |-> "Eight",
     flow_control |-> "None", parity |-> "None", stop_bits |-> "Two",
     timeout |-> from_millis(0)]

new(p, b) ==
    [path |-> p, baud_rate |-> b, data_bits |-> "Eight",
     flow_control |-> "None", parity |-> "None", stop_bits |-> "One",
     timeout |-> from_millis(0)]

path(self, p) == [self EXCEPT !.path = p]

baud_rate(self, b) == [self EXCEPT !.baud_rate = b]

\* data_bits resetting the parity of the builder.
data_bits_resetting_parity(self, d) ==
    [self EXCEPT !.data_bits = d, !.parity = "None"]

data_bits(self, d) == [self EXCEPT !.data_bits = d]

flow_control(self, f) == [self EXCEPT !.flow_control = f]

parity_sets_stop_bits(self, p) == [self EXCEPT !.parity = p, !.stop_bits = "One"]

parity(self, p) == [self EXCEPT !.parity = p]

stop_bits(self, s) == [self EXCEPT !.stop_bits = s]

timeout(self, t) == [self EXCEPT !.timeout = t]

InitBuilder ==
    \E p \in Paths, b \in BaudRates :
        /\ builder = new(p, b)
        /\ prev = NoBuilder
        /\ call = [op |-> "new", path |-> p, baud_rate |-> b]

Called(op, arg, result) ==
    /\ builder' = result
    /\ prev' = builder
    /\ call' = [op |-> op, arg |-> arg]
    /\ UNCHANGED <<chain, moda, minfo, udevVars, scanVars, portVars, linkVars, cmVars>>

CallPath == \E p \in Paths : Called("path", p, path(builder, p))

CallBaudRate == \E b \in BaudRates : Called("baud_rate", b, baud_rate(builder, b))

CallDataBits == \E d \in DataBits : Called("data_bits", d, data_bits(builder, d))

CallFlowControl ==
    \E f \in FlowControl : Called("flow_control", f, flow_control(builder, f))

CallParity == \E p \in Parity : Called("parity", p, parity(builder, p))

CallStopBits == \E s \in StopBits : Called("stop_bits", s, stop_bits(builder, s))

CallTimeout == \E t \in Timeouts : Called("timeout", t, timeout(builder, t))

(***************************************************************************)
(* Error kinds and their conversions (impl From<io::Error> for Error,      *)
(* impl From<Error> for io::Error)                                         *)
(***************************************************************************)
\* std::io::ErrorKind, the kinds of the host I/O error domain.
IoErrorKind ==
    {"NotFound", "PermissionDenied", "ConnectionRefused", "ConnectionReset",
     "ConnectionAborted", "NotConnected", "AddrInUse", "AddrNotAvailable",
     "BrokenPipe", "AlreadyExists", "WouldBlock", "InvalidInput",
     "InvalidData", "TimedOut", "WriteZero", "Interrupted", "Unsupported",
     "UnexpectedEof", "OutOfMemory", "Other"}

\* ErrorKind: three plain variants and Io(io::ErrorKind).
NoDevice == [tag |-> "NoDevice", io |-> "-"]

InvalidInput == [tag |-> "InvalidInput", io |-> "-"]

Unknown == [tag |-> "Unknown", io |-> "-"]

Io(k) == [tag |-> "Io", io |-> k]

ErrorKind == {NoDevice, InvalidInput, Unknown} \cup {Io(k) : k \in IoErrorKind}

Descriptions == {"", "Not implemented for this OS"}

\* Error::new
Error(kind, description) ==
    [ty |-> "Error", kind |-> kind, description |-> description]

\* io::Error::new, a custom error displayed as its message
io_Error(kind, msg) == [ty |-> "io::Error", kind |-> kind, msg |-> msg]

From_io_Error_for_Error_recovering(io_error) ==
    Error(CASE io_error.kind = "NotFound" -> NoDevice
            [] io_error.kind = "InvalidInput" -> InvalidInput
            [] io_error.kind = "Other" -> Unknown
            [] OTHER -> Io(io_error.kind),
          io_error.msg)

From_io_Error_for_Error(io_error) == Error(Io(io_error.kind), io_error.msg)

From_Error_for_io_Error_unknown_as_not_found(error) ==
    LET kind == CASE error.kind.tag = "NoDevice" -> "NotFound"
                  [] error.kind.tag = "InvalidInput" -> "InvalidInput"
                  [] error.kind.tag = "Unknown" -> "NotFound"
                  [] error.kind.tag = "Io" -> error.kind.io
    IN  io_Error(kind, error.description)

From_Error_for_io_Error(error) ==
    LET kind == CASE error.kind.tag = "NoDevice" -> "NotFound"
                  [] error.kind.tag = "InvalidInput" -> "InvalidInput"
                  [] error.kind.tag = "Unknown" -> "Other"
                  [] error.kind.tag = "Io" -> error.kind.io
    IN  io_Error(kind, error.description)

(***************************************************************************)
(* Integer conversions of DataBits and StopBits, FromStr for FlowControl   *)
(***************************************************************************)
Ok(t, v) == [ty |-> "Ok", of |-> t, v |-> v]

Err(t) == [ty |-> "Err", of |-> t]

Val(t, v) == [ty |-> t, v |-> v]

U8 == 0 .. 255

From_DataBits_for_u8(value) ==
    CASE value = "Five" -> 5
      [] value = "Six" -> 6
      [] value = "Seven" -> 7
      [] value = "Eight" -> 8

TryFrom_u8_for_DataBits_from_four(value) ==
    CASE value = 4 -> Ok("DataBits", "Five")
      [] value = 5 -> Ok("DataBits", "Six")
      [] value = 6 -> Ok("DataBits", "Seven")
      [] value = 7 -> Ok("DataBits", "Eight")
      [] OTHER -> Err("DataBits")

TryFrom_u8_for_DataBits(value) ==
    CASE value = 5 -> Ok("DataBits", "Five")
      [] value = 6 -> Ok("DataBits", "Six")
      [] value = 7 -> Ok("DataBits", "Seven")
      [] value = 8 -> Ok("DataBits", "Eight")
      [] OTHER -> Err("DataBits")

From_StopBits_for_u8(value) ==
    CASE value = "One" -> 1
      [] value = "Two" -> 2

TryFrom_u8_for_StopBits(value) ==
    CASE value = 1 -> Ok("StopBits", "One")
      [] value = 2 -> Ok("StopBits", "Two")
      [] OTHER -> Err("StopBits")

\* Letters that have two cases; a &str is a sequence of characters.
UpperLetters == <<"A", "D", "E", "F", "H", "N", "O", "R", "S", "T", "W">>

LowerLetters == <<"a", "d", "e", "f", "h", "n", "o", "r", "s", "t", "w">>

to_ascii_lowercase(c) ==
    IF \E i \in DOMAIN UpperLetters : UpperLetters[i] = c
    THEN LowerLetters[CHOOSE i \in DOMAIN UpperLetters : UpperLetters[i] = c]
    ELSE c

to_ascii_uppercase(c) ==
    IF \E i \in DOMAIN LowerLetters : LowerLetters[i] = c
    THEN UpperLetters[CHOOSE i \in DOMAIN LowerLetters : LowerLetters[i] = c]
    ELSE c

to_lowercase(s) == [i \in DOMAIN s |-> to_ascii_lowercase(s[i])]

to_uppercase(s) == [i \in DOMAIN s |-> to_ascii_uppercase(s[i])]

\* The string literals of from_str.
Str_None == <<"N", "o", "n", "e">>
Str_none == <<"n", "o", "n", "e">>
Str_n == <<"n">>
Str_Software == <<"S", "o", "f", "t", "w", "a", "r", "e">>
Str_software == <<"s", "o", "f", "t", "w", "a", "r", "e">>
Str_SW == <<"S", "W">>
Str_sw == <<"s", "w">>
Str_s == <<"s">>
Str_Hardware == <<"H", "a", "r", "d", "w", "a", "r", "e">>
Str_hardware == <<"h", "a", "r", "d", "w", "a", "r", "e">>
Str_HW == <<"H", "W">>
Str_hw == <<"h", "w">>
Str_h == <<"h">>

from_str_lowercasing(s) ==
    LET l == to_lowercase(s)
    IN  CASE l \in {Str_none, Str_n} -> Ok("FlowControl", "None")
          [] l \in {Str_software, Str_sw, Str_s} -> Ok("FlowControl", "Software")
          [] l \in {Str_hardware, Str_hw, Str_h} -> Ok("FlowControl", "Hardware")
          [] OTHER -> Err("FlowControl")

from_str(s) ==
    CASE s \in {Str_None, Str_none, Str_n} -> Ok("FlowControl", "None")
      [] s \in {Str_Software, Str_software, Str_SW, Str_sw, Str_s} ->
            Ok("FlowControl", "Software")
      [] s \in {Str_Hardware, Str_hardware, Str_HW, Str_hw, Str_h} ->
            Ok("FlowControl", "Hardware")
      [] OTHER -> Err("FlowControl")

\* Every spelling of a word in upper and lower case letters.
CaseVariants(w) ==
    {[i \in DOMAIN w |-> IF m[i] THEN to_ascii_uppercase(w[i]) ELSE w[i]] :
        m \in [DOMAIN w -> BOOLEAN]}

\* Strings that are no spelling of a flow-control word.
OtherStrs ==
    {<<>>, <<"x">>, <<"n", "o">>, <<"n", "o", "n", "e", "s">>, <<" ", "n">>,
     <<"h", "a", "r", "d">>, <<"s", "o", "f", "t">>, <<"w", "s">>, <<"o", "n">>,
     <<"H", "A", "R", "D", "W", "A", "R", "E", " ">>}

FlowControlStrs ==
    UNION {CaseVariants(w) : w \in {Str_none, Str_n, Str_software, Str_sw, Str_s,
                                    Str_hardware, Str_hw, Str_h}}
        \cup OtherStrs

(***************************************************************************)
(* The conversions as steps on a value: chain holds the value and the      *)
(* result of each conversion applied since.                                *)
(***************************************************************************)
MaxChain == 3

Last == chain[Len(chain)]

Convert(result) ==
    /\ Len(chain) < MaxChain
    /\ chain' = Append(chain, result)
    /\ UNCHANGED <<builder, prev, call, moda, minfo, udevVars, scanVars, portVars, linkVars, cmVars>>

\* The value a conversion consumes: a DataBits/StopBits or the one in an Ok.
Holds(t) == Last.ty = t \/ (Last.ty = "Ok" /\ Last.of = t)

ConvIoToError ==
    /\ Last.ty = "io::Error"
    /\ Convert(From_io_Error_for_Error(Last))

ConvErrorToIo ==
    /\ Last.ty = "Error"
    /\ Convert(From_Error_for_io_Error(Last))

ConvDataBitsToU8 ==
    /\ Holds("DataBits")
    /\ Convert(Val("u8", From_DataBits_for_u8(Last.v)))

ConvU8ToDataBits ==
    /\ Last.ty = "u8"
    /\ Convert(TryFrom_u8_for_DataBits(Last.v))

ConvStopBitsToU8 ==
    /\ Holds("StopBits")
    /\ Convert(Val("u8", From_StopBits_for_u8(Last.v)))

ConvU8ToStopBits ==
    /\ Last.ty = "u8"
    /\ Convert(TryFrom_u8_for_StopBits(Last.v))

ConvStrToFlowControl ==
    /\ Last.ty = "str"
    /\ Convert(from_str(Last.v))

InitConv ==
    /\ \/ \E k \in IoErrorKind, d \in Descriptions : chain = <<io_Error(k, d)>>
       \/ \E k \in ErrorKind, d \in Descriptions : chain = <<Error(k, d)>>
       \/ \E d \in DataBits : chain = <<Val("DataBits", d)>>
       \/ \E s \in StopBits : chain = <<Val("StopBits", s)>>
       \/ \E n \in U8 : chain = <<Val("u8", n)>>
       \/ \E s \in FlowControlStrs : chain = <<Val("str", s)>>
    /\ builder = NoBuilder
    /\ prev = NoBuilder
    /\ call = Idle
    /\ moda = <<>>
    /\ minfo = Idle
    /\ IdleUdev
    /\ IdleScan
    /\ IdlePort
    /\ IdleLink
    /\ IdleCm

NextConv ==
    \/ ConvIoToError
    \/ ConvErrorToIo
    \/ ConvDataBitsToU8
    \/ ConvU8ToDataBits
    \/ ConvStopBitsToU8
    \/ ConvU8ToStopBits
    \/ ConvStrToFlowControl

SpecConv == InitConv /\ [][NextConv]_vars

(***************************************************************************)
(* parse_modalias (posix/enumerate.rs).  A &str is the sequence of its     *)
(* UTF-8 bytes; an ASCII byte is written as its character, the bytes of a  *)
(* multi-byte character by their hex value ("xC3", "xA9").                 *)
(***************************************************************************)
\* Option<T>
None == <<>>

Some(x) == <<x>>

\* A panic raised while evaluating an expression.
Panic == <<"panic", "panic">>

\* UTF-8 continuation bytes (0x80..=0xBF) of the characters in the inputs.
ContinuationBytes == {"xA9"}

\* str::is_char_boundary
is_char_boundary(s, i) ==
    \/ i = 0
    \/ i = Len(s)
    \/ i < Len(s) /\ s[i + 1] \notin ContinuationBytes

\* A get that cuts the range at the end of the string.
get_clamping(s, a, b) ==
    LET e == IF b > Len(s) THEN Len(s) ELSE b
    IN  IF a <= e /\ is_char_boundary(s, a) /\ is_char_boundary(s, e)
        THEN Some(SubSeq(s, a + 1, e))
        ELSE None

\* The slice index &s[a..b], which panics where get returns None.
index(s, a, b) ==
    IF a <= b /\ b <= Len(s) /\ is_char_boundary(s, a) /\ is_char_boundary(s, b)
    THEN Some(SubSeq(s, a + 1, b))
    ELSE Panic

\* str::get with the range a..b: None unless the range lies in the string
\* and starts and ends on a character boundary.
get(s, a, b) ==
    IF a <= b /\ b <= Len(s) /\ is_char_boundary(s, a) /\ is_char_boundary(s, b)
    THEN Some(SubSeq(s, a + 1, b))
    ELSE None

\* str::find: the byte index of the first occurrence of the pattern.
find(s, pat) ==
    LET at == {i \in 0 .. Len(s) - Len(pat) : SubSeq(s, i + 1, i + Len(pat)) = pat}
    IN  IF at = {} THEN None
        ELSE Some(CHOOSE i \in at : \A j \in at : i <= j)

\* char::to_digit(16)
HexDigits ==
    <<"0", "1", "2", "3", "4", "5", "6", "7", "8", "9",
      "a", "b", "c", "d", "e", "f">>

to_digit_decimal(c) ==
    LET at == {i \in 1 .. 10 : HexDigits[i] = c}
    IN  IF at = {} THEN None ELSE Some((CHOOSE i \in at : TRUE) - 1)

to_digit(c) ==
    LET l == IF c \in {"A", "B", "C", "D", "E", "F"}
             THEN HexDigits[11 + (CHOOSE k \in 0 .. 5 :
                        <<"A", "B", "C", "D", "E", "F">>[k + 1] = c)]
             ELSE c
        at == {i \in DOMAIN HexDigits : HexDigits[i] = l}
    IN  IF at = {} THEN None ELSE Some((CHOOSE i \in at : TRUE) - 1)

\* The digit loop of from_str_radix: None on an invalid digit or when the
\* value no longer fits max.
RECURSIVE parse_digits(_, _, _)
parse_digits(digits, acc, max) ==
    IF digits = <<>> THEN Some(acc)
    ELSE LET d == to_digit(Head(digits))
         IN  IF d = None THEN None
             ELSE IF acc * 16 + d[1] > max THEN None
             ELSE parse_digits(Tail(digits), acc * 16 + d[1], max)

\* {u8,u16}::from_str_radix(src, 16).ok() for the unsigned type of maximum
\* max: an empty string and a lone sign are errors, a leading + is skipped.
from_str_radix(src, max) ==
    IF src = <<>> THEN None
    ELSE IF src \in {<<"+">>, <<"-">>} THEN None
    ELSE parse_digits(IF Head(src) = "+" THEN Tail(src) ELSE src, 0, max)

u16_MAX == 65535

u8_MAX == 255

Str_usb_v == <<"u", "s", "b", ":", "v">>

\* parse_modalias results: Option<UsbPortInfo>, or a panic.
NoMatch == [tag |-> "None"]

Panicked == [tag |-> "panic"]

UsbPortInfo(vid, pid, interface) ==
    [tag |-> "Some", vid |-> vid, pid |-> pid, serial_number |-> None,
     manufacturer |-> None, product |-> None, interface |-> interface]

\* The interface field of the returned struct (feature usbportinfo-interface).
parse_interface(mod_tail, pid_start) ==
    LET t == get(mod_tail, pid_start + 4, Len(mod_tail))
    IN  IF t \in {None, Panic} THEN t
        ELSE LET i_start == find(t[1], <<"i", "n">>)
             IN  IF i_start = None THEN None
                 ELSE LET interface == get(t[1], i_start[1] + 2, i_start[1] + 4)
                      IN  IF interface \in {None, Panic} THEN interface
                          ELSE from_str_radix(interface[1], u8_MAX)

\* The struct expression: vid and pid are parsed first and end the call with
\* no match when they are no numbers.
parse_fields(vid, pid, mod_tail, pid_start) ==
    LET v == from_str_radix(vid, u16_MAX)
        p == from_str_radix(pid, u16_MAX)
        interface == parse_interface(mod_tail, pid_start)
    IN  IF v = None THEN NoMatch
        ELSE IF p = None THEN NoMatch
        ELSE IF interface = Panic THEN Panicked
        ELSE UsbPortInfo(v[1], p[1], interface)

\* The product ID: the four bytes after the first p of the tail.
parse_product(vid, mod_tail) ==
    LET pid_start == find(mod_tail, <<"p">>)
    IN  IF pid_start = None THEN NoMatch
        ELSE LET pid == get(mod_tail, pid_start[1] + 1, pid_start[1] + 5)
             IN  IF pid = None THEN NoMatch
                 ELSE IF pid = Panic THEN Panicked
                 ELSE parse_fields(vid, pid[1], mod_tail, pid_start[1])

\* The vendor ID: the four bytes after the marker, and the tail after them.
parse_vendor(tail) ==
    LET vid == get(tail, 0, 4)
    IN  IF vid = None THEN NoMatch
        ELSE IF vid = Panic THEN Panicked
        ELSE LET mod_tail == get(tail, 4, Len(tail))
             IN  IF mod_tail = None THEN NoMatch
                 ELSE IF mod_tail = Panic THEN Panicked
                 ELSE parse_product(vid[1], mod_tail[1])

\* parse_modalias: the marker, then the tail after it.  A slice that panics
\* ends the call with the panic.
parse_modalias(s) ==
    LET mod_start == find(s, Str_usb_v)
    IN  IF mod_start = None THEN NoMatch
        ELSE LET tail == get(s, mod_start[1] + 5, Len(s))
             IN  IF tail = None THEN NoMatch
                 ELSE IF tail = Panic THEN Panicked
                 ELSE parse_vendor(tail[1])

(***************************************************************************)
(* MODALIAS inputs: device ids built from vendor, product, further fields  *)
(* and interface, each also with one insertion and cut short.              *)
(***************************************************************************)
Vendors == {<<"3", "0", "3", "A">>,
     <<"d", "c", "d", "c">>,
     <<"+", "1", "2", "3">>}

Products == {<<"1", "0", "0", "1">>,
     <<"a", "b", "c", "d">>,
     <<"+", "4", "5", "6">>}

FurtherFields == {<<>>,
     <<"d", "0", "1", "0", "1", "d", "c", "E", "F", "d", "s", "c", "0", "2">>}

Interfaces == {<<>>,
     <<"i", "n", "0", "C">>,
     <<"i", "n", "z", "z">>,
     <<"i", "n", "+", "1">>}

DeviceIds ==
    {Str_usb_v \o v \o <<"p">> \o p \o f \o i :
        v \in Vendors, p \in Products, f \in FurtherFields, i \in Interfaces}

\* The strings of the unit tests that are no DeviceIds or prefixes of them.
TestIds == {<<"u", "s", "b", ":", "p", "d", "c", "d", "c">>,
     <<"u", "s", "b", ":", "v", "3", "0", "3", "A", "p", "1", "0", "0", "1", "d", "0", "1", "0", "1", "d", "c", "E", "F", "d", "s", "c", "0", "2", "d", "p", "0", "1", "i", "c", "0", "2", "i", "s", "c", "0", "2", "i", "p", "0", "0", "i", "n", "0", "C">>,
     <<"u", "s", "b", ":", "v", "1", "2", "3", "4", "p", "5", "6", "7", "8", "i", "n", "d", "c">>}

Insertions == {<<"xC3", "xA9">>,
     <<"p">>,
     <<"-">>}

Insert(s, k, x) == SubSeq(s, 1, k) \o x \o SubSeq(s, k + 1, Len(s))

Prefixes(s) == {SubSeq(s, 1, n) : n \in {m \in 0 .. Len(s) : is_char_boundary(s, m)}}

ModaliasInputs ==
    UNION {Prefixes(s) : s \in DeviceIds \cup TestIds}
    \cup UNION {UNION {Prefixes(Insert(s, k, x)) : k \in 0 .. Len(s), x \in Insertions} :
                    s \in DeviceIds}

Pending == [tag |-> "Pending"]

ParseModalias ==
    /\ minfo = Pending
    /\ minfo' = parse_modalias(moda)
    /\ UNCHANGED <<builder, prev, call, chain, moda, udevVars, scanVars, portVars, linkVars, cmVars>>

InitModalias ==
    /\ moda \in ModaliasInputs
    /\ minfo = Pending
    /\ builder = NoBuilder
    /\ prev = NoBuilder
    /\ call = Idle
    /\ chain = <<>>
    /\ IdleUdev
    /\ IdleScan
    /\ IdlePort
    /\ IdleLink
    /\ IdleCm

NextModalias == ParseModalias

SpecModalias == InitModalias /\ [][NextModalias]_vars

(***************************************************************************)
(* udev properties of a device (posix/enumerate.rs, libudev enumerator).   *)
(* A device is a record of its properties (key to Option<OsStr>), its      *)
(* ancestors (nearest first), its device node and whether the node opens.  *)
(***************************************************************************)
OsStr(s) == [utf8 |-> TRUE, s |-> s]

\* An OsStr that is not valid UTF-8.
NotUtf8 == [utf8 |-> FALSE, s |-> <<>>]

\* OsStr::to_str
to_str(os) == IF os.utf8 THEN Some(os.s) ELSE None

UdevKeys ==
    {"ID_BUS", "ID_SERIAL_SHORT", "ID_VENDOR_ENC", "ID_VENDOR",
     "ID_VENDOR_FROM_DATABASE", "ID_MODEL_ENC", "ID_MODEL",
     "ID_MODEL_FROM_DATABASE", "ID_VENDOR_ID", "ID_MODEL_ID",
     "ID_USB_INTERFACE_NUM", "ID_USB_VENDOR_ID", "ID_USB_MODEL_ID",
     "ID_USB_VENDOR", "ID_USB_MODEL", "ID_USB_SERIAL_SHORT",
     "ID_USB_VENDOR_ENC", "ID_USB_MODEL_ENC", "MODALIAS"}

\* libudev::Device::property_value
property_value(d, key) == d.props[key]

udev_property_as_string(d, key) ==
    LET v == property_value(d, key)
    IN  IF v = None THEN None ELSE to_str(v[1])

\* Result<T>
ResultOk(v) == [ok |-> TRUE, v |-> v]

ResultErr(e) == [ok |-> FALSE, e |-> e]

\* udev_hex_property_as_int with from_str_radix of the unsigned type of
\* maximum max.
udev_hex_property_as_int(d, key, max) ==
    LET hex_str == udev_property_as_string(d, key)
    IN  IF hex_str # None
        THEN LET num == from_str_radix(hex_str[1], max)
             IN  IF num # None THEN ResultOk(num[1])
                 ELSE ResultErr(Error(Unknown, "value not hex string"))
        ELSE ResultErr(Error(Unknown, "key not found"))

\* char::from(u8) for the code points of the escapes in the inputs.
char_from(cp) ==
    CASE cp = 32 -> " "
      [] cp = 65 -> "A"
      [] cp = 95 -> "_"

\* unescaper::unescape(..).ok(): a character that is no backslash is copied;
\* after a backslash, a backslash stands for itself, x takes two hex digits,
\* and a character that starts no escape is an error, as is the end of the
\* string.  (The inputs hold no other escapes.)
RECURSIVE unescape_from(_, _)
unescape_from(chars, unescaped) ==
    IF chars = <<>> THEN Some(unescaped)
    ELSE IF Head(chars) # "\\"
    THEN unescape_from(Tail(chars), Append(unescaped, Head(chars)))
    ELSE IF Len(chars) < 2 THEN None
    ELSE LET c == chars[2]
         IN  CASE c = "\\" ->
                    unescape_from(SubSeq(chars, 3, Len(chars)),
                                  Append(unescaped, "\\"))
               [] c = "x" ->
                    IF Len(chars) < 4 THEN None
                    ELSE LET cp == from_str_radix(SubSeq(chars, 3, 4), u8_MAX)
                         IN  IF cp = None THEN None
                             ELSE unescape_from(SubSeq(chars, 5, Len(chars)),
                                        Append(unescaped, char_from(cp[1])))
               [] c \in {"q", "A", "B", "_", " "} -> None

unescape(s) == unescape_from(s, <<>>)

\* udev_restore_spaces: source.replace('_', " ")
udev_restore_spaces(source) ==
    [i \in DOMAIN source |-> IF source[i] = "_" THEN " " ELSE source[i]]

\* udev_property_encoded_or_replaced_as_string: the escaped form unescaped,
\* or else the simplified form, and udev_restore_spaces mapped over either.
udev_property_encoded_or_replaced_as_string(d, encoded_key, replaced_key) ==
    LET encoded == udev_property_as_string(d, encoded_key)
        unescaped == IF encoded = None THEN None ELSE unescape(encoded[1])
        value == IF unescaped # None THEN unescaped
                 ELSE udev_property_as_string(d, replaced_key)
    IN  IF value = None THEN None ELSE Some(udev_restore_spaces(value[1]))

(***************************************************************************)
(* port_type and find_usb_interface_from_parents (libudev enumerator)      *)
(***************************************************************************)
\* SerialPortType
UsbPort(info) == [type |-> "UsbPort", info |-> info]

PciPort == [type |-> "PciPort"]

BluetoothPort == [type |-> "BluetoothPort"]

UnknownPort == [type |-> "Unknown"]

\* A UsbPortInfo with all its fields.
UsbPortInfoOf(vid, pid, serial_number, manufacturer, product, interface) ==
    [tag |-> "Some", vid |-> vid, pid |-> pid, serial_number |-> serial_number,
     manufacturer |-> manufacturer, product |-> product, interface |-> interface]

Str_usb == <<"u", "s", "b">>

Str_pci == <<"p", "c", "i">>

Str_usb_interface == <<"u", "s", "b", "_", "i", "n", "t", "e", "r", "f", "a", "c", "e">>

\* for _ in 1..4
QueryDepth == 3

\* The loop of find_usb_interface_from_parents with p the i-th ancestor and
\* n iterations left.
RECURSIVE find_usb_interface_loop(_, _, _)
find_usb_interface_loop(parents, i, n) ==
    IF n = 0 THEN Some(parents[i])
    ELSE LET devtype == parents[i].devtype
         IN  IF devtype = None
             THEN IF i = Len(parents) THEN Some(parents[i])
                  ELSE find_usb_interface_loop(parents, i + 1, n - 1)
             ELSE LET t == to_str(devtype[1])
                  IN  IF t = None THEN None
                      ELSE IF t[1] = Str_usb_interface THEN Some(parents[i])
                      ELSE IF i = Len(parents) THEN Some(parents[i])
                      ELSE find_usb_interface_loop(parents, i + 1, n - 1)

\* find_usb_interface_from_parents looping until the ancestors end.
find_usb_interface_from_parents_unbounded(parents) ==
    IF parents = <<>> THEN None
    ELSE find_usb_interface_loop(parents, 1, Len(parents))

\* find_usb_interface_from_parents(d.parent()) for the ancestors of d.
find_usb_interface_from_parents(parents) ==
    IF parents = <<>> THEN None
    ELSE find_usb_interface_loop(parents, 1, QueryDepth)

get_modalias_from_device(d) == udev_property_as_string(d, "MODALIAS")

\* The arm Some("usb") with the database properties looked up first.
port_type_usb_database_first(d) ==
    LET serial_number == udev_property_as_string(d, "ID_SERIAL_SHORT")
        from_db == udev_property_as_string(d, "ID_VENDOR_FROM_DATABASE")
        manufacturer ==
            IF from_db # None THEN from_db
            ELSE udev_property_encoded_or_replaced_as_string(
                    d, "ID_VENDOR_ENC", "ID_VENDOR")
        model_db == udev_property_as_string(d, "ID_MODEL_FROM_DATABASE")
        product ==
            IF model_db # None THEN model_db
            ELSE udev_property_encoded_or_replaced_as_string(
                    d, "ID_MODEL_ENC", "ID_MODEL")
        vid == udev_hex_property_as_int(d, "ID_VENDOR_ID", u16_MAX)
        pid == udev_hex_property_as_int(d, "ID_MODEL_ID", u16_MAX)
        interface == udev_hex_property_as_int(d, "ID_USB_INTERFACE_NUM", u8_MAX)
    IN  IF ~vid.ok THEN vid
        ELSE IF ~pid.ok THEN pid
        ELSE ResultOk(UsbPort(UsbPortInfoOf(vid.v, pid.v, serial_number,
                manufacturer, product,
                IF interface.ok THEN Some(interface.v) ELSE None)))

\* The arm Some("usb") of port_type.
port_type_usb(d) ==
    LET serial_number == udev_property_as_string(d, "ID_SERIAL_SHORT")
        live_vendor == udev_property_encoded_or_replaced_as_string(
                            d, "ID_VENDOR_ENC", "ID_VENDOR")
        manufacturer ==
            IF live_vendor # None THEN live_vendor
            ELSE udev_property_as_string(d, "ID_VENDOR_FROM_DATABASE")
        live_model == udev_property_encoded_or_replaced_as_string(
                            d, "ID_MODEL_ENC", "ID_MODEL")
        product ==
            IF live_model # None THEN live_model
            ELSE udev_property_as_string(d, "ID_MODEL_FROM_DATABASE")
        vid == udev_hex_property_as_int(d, "ID_VENDOR_ID", u16_MAX)
        pid == udev_hex_property_as_int(d, "ID_MODEL_ID", u16_MAX)
        interface == udev_hex_property_as_int(d, "ID_USB_INTERFACE_NUM", u8_MAX)
    IN  IF ~vid.ok THEN vid
        ELSE IF ~pid.ok THEN pid
        ELSE ResultOk(UsbPort(UsbPortInfoOf(vid.v, pid.v, serial_number,
                manufacturer, product,
                IF interface.ok THEN Some(interface.v) ELSE None)))

\* The arm Some("pci") taking one of the five properties for a USB device.
port_type_pci_any_usb_property(d) ==
    LET usb_properties ==
            \E key \in {"ID_USB_VENDOR_ID", "ID_USB_MODEL_ID", "ID_USB_VENDOR",
                        "ID_USB_MODEL", "ID_USB_SERIAL_SHORT"} :
                property_value(d, key) # None
        manufacturer == udev_property_encoded_or_replaced_as_string(
                            d, "ID_USB_VENDOR_ENC", "ID_USB_VENDOR")
        product == udev_property_encoded_or_replaced_as_string(
                            d, "ID_USB_MODEL_ENC", "ID_USB_MODEL")
        vid == udev_hex_property_as_int(d, "ID_USB_VENDOR_ID", u16_MAX)
        pid == udev_hex_property_as_int(d, "ID_USB_MODEL_ID", u16_MAX)
        interface == udev_hex_property_as_int(d, "ID_USB_INTERFACE_NUM", u8_MAX)
    IN  IF usb_properties
        THEN IF ~vid.ok THEN vid
             ELSE IF ~pid.ok THEN pid
             ELSE ResultOk(UsbPort(UsbPortInfoOf(vid.v, pid.v,
                    udev_property_as_string(d, "ID_USB_SERIAL_SHORT"),
                    manufacturer, product,
                    IF interface.ok THEN Some(interface.v) ELSE None)))
        ELSE ResultOk(PciPort)

\* The arm Some("pci") of port_type.
port_type_pci(d) ==
    LET usb_properties ==
            \A key \in {"ID_USB_VENDOR_ID", "ID_USB_MODEL_ID", "ID_USB_VENDOR",
                        "ID_USB_MODEL", "ID_USB_SERIAL_SHORT"} :
                property_value(d, key) # None
        manufacturer == udev_property_encoded_or_replaced_as_string(
                            d, "ID_USB_VENDOR_ENC", "ID_USB_VENDOR")
        product == udev_property_encoded_or_replaced_as_string(
                            d, "ID_USB_MODEL_ENC", "ID_USB_MODEL")
        vid == udev_hex_property_as_int(d, "ID_USB_VENDOR_ID", u16_MAX)
        pid == udev_hex_property_as_int(d, "ID_USB_MODEL_ID", u16_MAX)
        interface == udev_hex_property_as_int(d, "ID_USB_INTERFACE_NUM", u8_MAX)
    IN  IF usb_properties
        THEN IF ~vid.ok THEN vid
             ELSE IF ~pid.ok THEN pid
             ELSE ResultOk(UsbPort(UsbPortInfoOf(vid.v, pid.v,
                    udev_property_as_string(d, "ID_USB_SERIAL_SHORT"),
                    manufacturer, product,
                    IF interface.ok THEN Some(interface.v) ELSE None)))
        ELSE ResultOk(PciPort)

\* The arm None of port_type: the MODALIAS of the ancestor found.
port_type_none(d) ==
    LET p == find_usb_interface_from_parents(d.parents)
        modalias == IF p = None THEN None ELSE get_modalias_from_device(p[1])
        port_info == IF modalias = None THEN NoMatch
                     ELSE parse_modalias(modalias[1])
    IN  IF port_info.tag = "Some" THEN ResultOk(UsbPort(port_info))
        ELSE ResultOk(UnknownPort)

\* port_type (libudev): Result<SerialPortType>
port_type(d) ==
    LET id_bus == udev_property_as_string(d, "ID_BUS")
    IN  IF id_bus = None THEN port_type_none(d)
        ELSE IF id_bus[1] = Str_usb THEN port_type_usb(d)
        ELSE IF id_bus[1] = Str_pci THEN port_type_pci(d)
        ELSE ResultOk(UnknownPort)

(***************************************************************************)
(* Devices handed to the udev classifier                                   *)
(***************************************************************************)
\* The properties given, every other key absent.
Props(given) == [k \in UdevKeys |-> IF k \in DOMAIN given THEN given[k] ELSE None]

\* An ancestor: its device type, its driver and its properties.
Ancestor(devtype, driver, props) ==
    [devtype |-> devtype, driver |-> driver, props |-> props]

\* A tty device: its properties, its ancestors (nearest first), its device
\* node and whether opening the node succeeds.
Device(props, parents, devnode, opens) ==
    [props |-> props, parents |-> parents, devnode |-> devnode, opens |-> opens]

Str_dev_ttyUSB0 == <<"/", "d", "e", "v", "/", "t", "t", "y", "U", "S", "B", "0">>

Str_dev_ttyS0 == <<"/", "d", "e", "v", "/", "t", "t", "y", "S", "0">>

Str_serial8250 == <<"s", "e", "r", "i", "a", "l", "8", "2", "5", "0">>

\* A parent without device type, driver and properties.
PlainParent == Ancestor(None, None, Props(<<>>))

EncodedValues ==
    {None,
     Some(NotUtf8),
     Some(OsStr(<<"A", "_", "B">>)),
     Some(OsStr(<<"A", "\\", "x", "2", "0", "B">>)),
     Some(OsStr(<<"A", "\\", "x", "2">>)),
     Some(OsStr(<<"A", "\\", "q", "B">>))}

ReplacedValues ==
    {None,
     Some(OsStr(<<"A", "_", "B">>)),
     Some(NotUtf8)}

DatabaseValues ==
    {None,
     Some(OsStr(<<"D", "b", "_", "A">>))}

HexIdValues ==
    {None,
     Some(OsStr(<<"3", "0", "3", "a">>)),
     Some(OsStr(<<"z", "z">>))}

\* Devices on the USB bus.
UsbBusDevices ==
    {Device(Props("ID_BUS" :> Some(OsStr(Str_usb))
                  @@ "ID_VENDOR_ID" :> vid @@ "ID_MODEL_ID" :> pid
                  @@ "ID_VENDOR_ENC" :> enc @@ "ID_VENDOR" :> rep
                  @@ "ID_VENDOR_FROM_DATABASE" :> db
                  @@ "ID_MODEL_ENC" :> menc @@ "ID_MODEL" :> mrep
                  @@ "ID_MODEL_FROM_DATABASE" :> mdb
                  @@ "ID_SERIAL_SHORT" :> serial
                  @@ "ID_USB_INTERFACE_NUM" :> num),
            <<PlainParent>>, Some(OsStr(Str_dev_ttyUSB0)), TRUE) :
        vid \in HexIdValues,
        pid \in {None, Some(OsStr(<<"1", "0", "0", "1">>))},
        enc \in EncodedValues, rep \in ReplacedValues, db \in DatabaseValues,
        menc \in {None, Some(OsStr(<<"M", "\\", "x", "2", "0", "N">>))},
        mrep \in {None, Some(OsStr(<<"M", "_", "N">>))},
        mdb \in {None, Some(OsStr(<<"D", "b", "_", "M">>))},
        serial \in {None, Some(OsStr(<<"S", "1">>))},
        num \in {None, Some(OsStr(<<"0", "c">>))}}

\* Devices on the PCI bus, with and without the properties of a USB device.
PciBusDevices ==
    {Device(Props("ID_BUS" :> Some(OsStr(Str_pci))
                  @@ "ID_USB_VENDOR_ID" :> vid @@ "ID_USB_MODEL_ID" :> pid
                  @@ "ID_USB_VENDOR" :> rep @@ "ID_USB_MODEL" :> mrep
                  @@ "ID_USB_SERIAL_SHORT" :> serial
                  @@ "ID_USB_VENDOR_ENC" :> enc),
            <<PlainParent>>, Some(OsStr(Str_dev_ttyS0)), TRUE) :
        vid \in HexIdValues,
        pid \in {None, Some(OsStr(<<"1", "0", "0", "1">>))},
        rep \in ReplacedValues,
        mrep \in {None, Some(OsStr(<<"M", "_", "N">>))},
        serial \in {None, Some(OsStr(<<"S", "1">>))},
        enc \in {None, Some(OsStr(<<"A", "\\", "x", "2", "0", "B">>))}}

\* The ancestors a device without ID_BUS is classified by.
AncestorKinds ==
    {PlainParent,
     Ancestor(Some(OsStr(Str_usb_interface)), None,
              Props("MODALIAS" :> Some(OsStr(Str_usb_v \o <<"3", "0", "3", "A", "p", "1", "0", "0", "1", "i", "n", "0", "C">>)))),
     Ancestor(Some(OsStr(Str_usb_interface)), None, Props(<<>>)),
     Ancestor(Some(OsStr(<<"u", "s", "b", "_", "d", "e", "v", "i", "c", "e">>)), None,
              Props("MODALIAS" :> Some(OsStr(Str_usb_v \o <<"d", "c", "d", "c", "p", "a", "b", "c", "d">>)))),
     Ancestor(Some(NotUtf8), None, Props(<<>>))}

MaxParents == 5

RECURSIVE SeqsUpTo(_, _)
SeqsUpTo(S, n) ==
    IF n = 0 THEN {<<>>}
    ELSE LET shorter == SeqsUpTo(S, n - 1)
         IN  shorter \cup {Append(q, x) : q \in shorter, x \in S}

\* Devices without a usable ID_BUS: without the property below any chain of
\* ancestors, with a value that is not UTF-8 below at most one ancestor.
NoBusDevices ==
    {Device(Props("ID_BUS" :> None), parents, Some(OsStr(Str_dev_ttyUSB0)), TRUE) :
        parents \in SeqsUpTo(AncestorKinds, MaxParents)}
    \cup
    {Device(Props("ID_BUS" :> Some(NotUtf8)), parents, Some(OsStr(Str_dev_ttyUSB0)), TRUE) :
        parents \in SeqsUpTo(AncestorKinds, 1)}

\* A device on another bus.
OtherBusDevices ==
    {Device(Props("ID_BUS" :> Some(OsStr(<<"s", "c", "s", "i">>))), <<PlainParent>>,
            Some(OsStr(Str_dev_ttyS0)), TRUE)}

UdevDevices == UsbBusDevices \cup PciBusDevices \cup NoBusDevices \cup OtherBusDevices

\* The pairs of keys of the two-flavour properties.
FlavourKeys ==
    {<<"ID_VENDOR_ENC", "ID_VENDOR">>, <<"ID_MODEL_ENC", "ID_MODEL">>,
     <<"ID_USB_VENDOR_ENC", "ID_USB_VENDOR">>}

Unclassified == [op |-> "none"]

\* port_type(&d)
ClassifyDevice ==
    /\ lookup = Unclassified
    /\ lookup' = [op |-> "port_type", res |-> port_type(device)]
    /\ UNCHANGED <<builder, prev, call, chain, moda, minfo, device, scanVars, portVars, linkVars, cmVars>>

\* udev_property_encoded_or_replaced_as_string(&d, encoded_key, replaced_key)
LookupProperty ==
    /\ lookup = Unclassified
    /\ \E keys \in FlavourKeys :
            lookup' = [op |-> "encoded_or_replaced",
                       encoded_key |-> keys[1], replaced_key |-> keys[2],
                       res |-> udev_property_encoded_or_replaced_as_string(
                                    device, keys[1], keys[2])]
    /\ UNCHANGED <<builder, prev, call, chain, moda, minfo, device, scanVars, portVars, linkVars, cmVars>>

InitUdev ==
    /\ device \in UdevDevices
    /\ lookup = Unclassified
    /\ builder = NoBuilder
    /\ prev = NoBuilder
    /\ call = Idle
    /\ chain = <<>>
    /\ moda = <<>>
    /\ minfo = Idle
    /\ IdleScan
    /\ IdlePort
    /\ IdleLink
    /\ IdleCm

NextUdev ==
    \/ ClassifyDevice
    \/ LookupProperty

SpecUdev == InitUdev /\ [][NextUdev]_vars

(***************************************************************************)
(* available_ports: the scan over the candidate devices                    *)
(***************************************************************************)
\* SerialPortInfo
SerialPortInfo(port_name, pt) == [port_name |-> port_name, port_type |-> pt]

\* The bound on the number of candidates of a scan.
MaxDevices == 2

Digit(i) == CASE i = 1 -> "1" [] i = 2 -> "2" [] i = 3 -> "3" [] OTHER -> "4"

\* The name of the device node of the i-th candidate: the kernel gives every
\* tty device a name of its own.
NodeName(i) ==
    <<"/", "d", "e", "v", "/", "t", "t", "y", Digit(i)>>

\* The tty devices udev hands to the scan, before their nodes are named.
ScanDevices ==
    LET usb(vid, pid) ==
            Device(Props("ID_BUS" :> Some(OsStr(Str_usb))
                         @@ "ID_VENDOR_ID" :> vid @@ "ID_MODEL_ID" :> pid
                         @@ "ID_VENDOR" :> Some(OsStr(<<"A", "_", "B">>))),
                   <<PlainParent>>, Some(OsStr(<<>>)), TRUE)
        nobus(parents, opens) ==
            Device(Props(<<>>), parents, Some(OsStr(<<>>)), opens)
        id_1001 == Some(OsStr(<<"1", "0", "0", "1">>))
        legacy == Ancestor(None, Some(OsStr(Str_serial8250)), Props(<<>>))
        ftdi == Ancestor(None, Some(OsStr(<<"f", "t", "d", "i", "_", "s", "i", "o">>)),
                         Props(<<>>))
    IN  {usb(Some(OsStr(<<"3", "0", "3", "a">>)), id_1001),
         usb(None, id_1001),
         usb(Some(OsStr(<<"z", "z">>)), id_1001),
         usb(Some(OsStr(<<"3", "0", "3", "a">>)), None),
         Device(Props("ID_BUS" :> Some(OsStr(<<"s", "c", "s", "i">>))),
                <<PlainParent>>, Some(OsStr(<<>>)), TRUE),
         Device(Props("ID_BUS" :> Some(OsStr(Str_pci))),
                <<PlainParent>>, Some(OsStr(<<>>)), TRUE),
         Device(Props("ID_BUS" :> Some(OsStr(Str_pci))
                      @@ "ID_USB_VENDOR_ID" :> Some(OsStr(<<"z", "z">>))
                      @@ "ID_USB_MODEL_ID" :> id_1001
                      @@ "ID_USB_VENDOR" :> Some(OsStr(<<"A", "_", "B">>))
                      @@ "ID_USB_MODEL" :> Some(OsStr(<<"M", "_", "N">>))
                      @@ "ID_USB_SERIAL_SHORT" :> Some(OsStr(<<"S", "1">>))),
                <<PlainParent>>, Some(OsStr(<<>>)), TRUE),
         nobus(<<PlainParent>>, TRUE),
         nobus(<<Ancestor(Some(OsStr(Str_usb_interface)), None,
                          Props("MODALIAS" :> Some(OsStr(Str_usb_v \o
                            <<"3", "0", "3", "A", "p", "1", "0", "0", "1">>))))>>,
               TRUE),
         nobus(<<legacy>>, TRUE),
         nobus(<<legacy>>, FALSE),
         nobus(<<ftdi>>, TRUE),
         nobus(<<ftdi>>, FALSE),
         nobus(<<PlainParent>>, FALSE),
         nobus(<<>>, TRUE),
         [nobus(<<PlainParent>>, TRUE) EXCEPT !.devnode = None],
         [nobus(<<PlainParent>>, TRUE) EXCEPT !.devnode = Some(NotUtf8)]}

\* The candidates of a scan: up to MaxDevices of the shapes, the i-th node
\* named by its position.
UdevNamed(d, i) ==
    IF d.devnode # None /\ d.devnode[1].utf8
    THEN [d EXCEPT !.devnode = Some(OsStr(NodeName(i)))]
    ELSE d

UdevCandidates ==
    {[i \in DOMAIN shapes |-> UdevNamed(shapes[i], i)] :
        shapes \in SeqsUpTo(ScanDevices, MaxDevices)}

\* libudev::Context::new() fails: the scan returns the empty list.
UdevNoContext ==
    /\ platform = "udev"
    /\ pc = "setup"
    /\ pc' = "returned"
    /\ ret' = Some(ResultOk(vec))
    /\ UNCHANGED <<builder, prev, call, chain, moda, minfo, udevVars, portVars,
                   platform, candidates, opened, pos, vec, linkVars, cmVars>>

\* Enumerator::new, match_subsystem or scan_devices fails: the error is
\* returned with `?`.
UdevSetupFails ==
    /\ platform = "udev"
    /\ pc = "setup"
    /\ pc' = "returned"
    /\ \E k \in ErrorKind : ret' = Some(ResultErr(Error(k, "libudev")))
    /\ UNCHANGED <<builder, prev, call, chain, moda, minfo, udevVars, portVars,
                   platform, candidates, opened, pos, vec, linkVars, cmVars>>

\* The setup of a scan succeeds and the loop starts.
SetupDone ==
    /\ pc = "setup"
    /\ pc' = "loop"
    /\ UNCHANGED <<builder, prev, call, chain, moda, minfo, udevVars, portVars,
                   platform, candidates, opened, pos, vec, ret, linkVars, cmVars>>

\* The udev loop reporting a device that port_type fails on as Unknown.
udev_entries_unknown_on_error(d) ==
    IF d.parents = <<>> THEN <<>>
    ELSE IF d.devnode = None THEN <<>>
    ELSE LET p == d.parents[1]
             port_name == to_str(d.devnode[1])
         IN  IF port_name = None THEN <<>>
             ELSE IF /\ p.driver # None
                     /\ p.driver[1] = OsStr(Str_serial8250)
                     /\ ~d.opens
                  THEN <<>>
             ELSE IF port_type(d).ok
                  THEN <<SerialPortInfo(port_name[1], port_type(d).v)>>
             ELSE <<SerialPortInfo(port_name[1], UnknownPort)>>

\* The entries one iteration of the udev loop pushes for the device d.
udev_entries(d) ==
    IF d.parents = <<>> THEN <<>>
    ELSE IF d.devnode = None THEN <<>>
    ELSE LET p == d.parents[1]
             port_name == to_str(d.devnode[1])
         IN  IF port_name = None THEN <<>>
             ELSE IF /\ p.driver # None
                     /\ p.driver[1] = OsStr(Str_serial8250)
                     /\ ~d.opens
                  THEN <<>>
             ELSE IF port_type(d).ok
                  THEN <<SerialPortInfo(port_name[1], port_type(d).v)>>
             ELSE <<>>

\* The udev loop opening the node of a device whatever the driver of its
\* parent is.
udev_opens_any_driver(d) ==
    IF d.parents = <<>> THEN <<>>
    ELSE IF d.devnode = None THEN <<>>
    ELSE LET p == d.parents[1]
             port_name == to_str(d.devnode[1])
         IN  IF port_name = None THEN <<>>
             ELSE IF p.driver # None
                  THEN <<new(port_name[1], 9600)>>
             ELSE <<>>

\* The builders one iteration of the udev loop calls open() on for the device
\* d: `driver == "serial8250" && crate::new(path, 9600).open().is_err()`
\* opens only after the driver compared equal.
udev_opens(d) ==
    IF d.parents = <<>> THEN <<>>
    ELSE IF d.devnode = None THEN <<>>
    ELSE LET p == d.parents[1]
             port_name == to_str(d.devnode[1])
         IN  IF port_name = None THEN <<>>
             ELSE IF /\ p.driver # None
                     /\ p.driver[1] = OsStr(Str_serial8250)
                  THEN <<new(port_name[1], 9600)>>
             ELSE <<>>

\* One iteration of `for d in devices`.
UdevDevice ==
    /\ platform = "udev"
    /\ pc = "loop"
    /\ pos < Len(candidates)
    /\ pos' = pos + 1
    /\ vec' = vec \o udev_entries(candidates[pos + 1])
    /\ opened' = opened \o udev_opens(candidates[pos + 1])
    /\ UNCHANGED <<builder, prev, call, chain, moda, minfo, udevVars, portVars,
                   platform, candidates, pc, ret, linkVars, cmVars>>

\* The iterator is exhausted: Ok(vec).
ScanDone ==
    /\ pc = "loop"
    /\ pos = Len(candidates)
    /\ pc' = "returned"
    /\ ret' = Some(ResultOk(vec))
    /\ UNCHANGED <<builder, prev, call, chain, moda, minfo, udevVars, portVars,
                   platform, candidates, opened, pos, vec, linkVars, cmVars>>

(***************************************************************************)
(* available_ports on macOS and iOS: the IOKit registry                    *)
(***************************************************************************)
\* The values of a registry property: absent, a CFNumber or a CFString.
CFNull == [cf |-> "null"]

CFNumberOf(n) == [cf |-> "number", n |-> n]

CFStringOf(str) == [cf |-> "string", s |-> str]

MacKeys ==
    {"idVendor", "idProduct", "USB Serial Number", "USB Vendor Name",
     "USB Product Name", "bInterfaceNumber"}

\* A registry entry: its class name and its properties.
RegistryEntry(class, given) ==
    [class |-> class,
     props |-> [k \in MacKeys |-> IF k \in DOMAIN given THEN given[k] ELSE CFNull]]

Class_IOUSBHostInterface == "IOUSBHostInterface"

Class_IOUSBDevice == "IOUSBDevice"

Class_IOBluetoothSerialClient == "IOBluetoothSerialClient"

Class_IOSerialBSDClient == "IOSerialBSDClient"

RECURSIVE get_parent_device_from(_, _, _)
get_parent_device_from(chain_, i, parent_type) ==
    IF i > Len(chain_) THEN None
    ELSE IF chain_[i].class = parent_type THEN Some(chain_[i])
    ELSE get_parent_device_from(chain_, i + 1, parent_type)

\* get_parent_device_by_type: the device itself or its nearest ancestor of
\* the class, for a device given with its ancestors (nearest first).
get_parent_device_by_type(device_, parent_type) ==
    get_parent_device_from(device_, 1, parent_type)

\* get_int_property: `n as u32` of the CFNumber, which is n itself for the
\* numbers 0 <= n < 2^32 of the registries below
get_int_property(device_type, property) ==
    LET cf_type == device_type.props[property]
    IN  IF cf_type.cf = "null"
        THEN ResultErr(Error(Unknown, "Failed to get property"))
        ELSE IF cf_type.cf = "number" THEN ResultOk(cf_type.n)
        ELSE ResultErr(Error(Unknown, "Failed to get numerical value"))

\* get_string_property
get_string_property(device_type, property) ==
    LET cf_type == device_type.props[property]
    IN  IF cf_type.cf = "null"
        THEN ResultErr(Error(Unknown, "Failed to get property"))
        ELSE IF cf_type.cf = "string" THEN ResultOk(cf_type.s)
        ELSE ResultErr(Error(Unknown, "Failed to get string value"))

\* Result::unwrap_or_default for u32
unwrap_or_default(r) == IF r.ok THEN r.v ELSE 0

\* Result::ok
ok(r) == IF r.ok THEN Some(r.v) ELSE None

as_u16(n) == n % (u16_MAX + 1)

as_u8(n) == n % (u8_MAX + 1)

\* port_type (macos/ios): SerialPortType
port_type_macos(service) ==
    LET usb == get_parent_device_by_type(service, Class_IOUSBHostInterface)
        maybe_usb_device ==
            IF usb # None THEN usb
            ELSE get_parent_device_by_type(service, Class_IOUSBDevice)
    IN  IF maybe_usb_device # None
        THEN LET usb_device == maybe_usb_device[1]
                 interface == get_int_property(usb_device, "bInterfaceNumber")
             IN  UsbPort(UsbPortInfoOf(
                    as_u16(unwrap_or_default(get_int_property(usb_device, "idVendor"))),
                    as_u16(unwrap_or_default(get_int_property(usb_device, "idProduct"))),
                    ok(get_string_property(usb_device, "USB Serial Number")),
                    ok(get_string_property(usb_device, "USB Vendor Name")),
                    ok(get_string_property(usb_device, "USB Product Name")),
                    IF interface.ok THEN Some(as_u8(interface.v)) ELSE None))
        ELSE IF get_parent_device_by_type(service, Class_IOBluetoothSerialClient) # None
        THEN BluetoothPort
        ELSE PciPort

\* The value of a device-path key of a service: absent, of another type than
\* CFString, or a CFString that CFStringGetCString copies or fails to copy.
PathAbsent == [found |-> FALSE]

PathNotString == [found |-> TRUE, cf |-> "data"]

PathTooLong == [found |-> TRUE, cf |-> "string", cstring |-> None]

PathOf(str) == [found |-> TRUE, cf |-> "string", cstring |-> Some(str)]

\* A serial service: whether its properties can be fetched, its two device
\* paths and the service followed by its ancestors in the registry.
Service(props_ok, callout, dialin, registry) ==
    [props_ok |-> props_ok, IOCalloutDevice |-> callout,
     IODialinDevice |-> dialin, registry |-> registry]

MacPathKeys == <<"IOCalloutDevice", "IODialinDevice">>

\* The serial services IOKit hands to the scan, before their paths are named.
ScanServices ==
    LET serial == RegistryEntry(Class_IOSerialBSDClient, <<>>)
        usb(class, vid, pid) ==
            <<serial,
              RegistryEntry(class,
                  "idVendor" :> vid @@ "idProduct" :> pid
                  @@ "USB Vendor Name" :> CFStringOf(<<"A", "_", "B">>)
                  @@ "bInterfaceNumber" :> CFNumberOf(0))>>
        good(registry) == Service(TRUE, PathOf(<<>>), PathOf(<<>>), registry)
    IN  {good(usb(Class_IOUSBHostInterface, CFNumberOf(12346), CFNumberOf(4097))),
         good(usb(Class_IOUSBHostInterface, CFNull, CFNumberOf(4097))),
         good(usb(Class_IOUSBHostInterface, CFNumberOf(12346), CFStringOf(<<"x">>))),
         good(usb(Class_IOUSBHostInterface, CFNumberOf(65541), CFNumberOf(4097))),
         good(usb(Class_IOUSBDevice, CFNumberOf(12346), CFNumberOf(4097))),
         good(<<serial, RegistryEntry(Class_IOBluetoothSerialClient, <<>>)>>),
         good(<<serial, RegistryEntry(Class_IOBluetoothSerialClient, <<>>),
                RegistryEntry(Class_IOUSBDevice, <<>>)>>),
         good(<<serial>>),
         Service(FALSE, PathOf(<<>>), PathOf(<<>>), <<serial>>),
         Service(TRUE, PathOf(<<>>), PathAbsent, <<serial>>),
         Service(TRUE, PathNotString, PathOf(<<>>), <<serial>>),
         Service(TRUE, PathOf(<<>>), PathTooLong, <<serial>>)}

MacNamed(service, i) ==
    LET named(value, str) ==
            IF value.found /\ value.cf = "string" /\ value.cstring # None
            THEN PathOf(str) ELSE value
    IN  [service EXCEPT
            !.IOCalloutDevice =
                named(@, <<"/", "d", "e", "v", "/", "c", "u", ".", Digit(i)>>),
            !.IODialinDevice =
                named(@, <<"/", "d", "e", "v", "/", "t", "t", "y", ".", Digit(i)>>)]

MacCandidates ==
    {[i \in DOMAIN shapes |-> MacNamed(shapes[i], i)] :
        shapes \in SeqsUpTo(ScanServices, MaxDevices)}

\* IOServiceMatching, IOMasterPort or IOServiceGetMatchingServices fails.
MacSetupFails ==
    /\ platform = "macos"
    /\ pc = "setup"
    /\ pc' = "returned"
    /\ \E description \in {"IOServiceMatching returned a NULL dictionary.",
                           "ERROR: {}"} :
            ret' = Some(ResultErr(Error(Unknown, description)))
    /\ UNCHANGED <<builder, prev, call, chain, moda, minfo, udevVars, portVars,
                   platform, candidates, opened, pos, vec, linkVars, cmVars>>

\* `for key in ["IOCalloutDevice", "IODialinDevice"]` from the k-th key on,
\* with the entries pushed so far: the entries and the error of an early
\* return, if any.
RECURSIVE mac_keys_from(_, _, _)
mac_keys_from(service, k, pushed) ==
    IF k > Len(MacPathKeys) THEN [pushed |-> pushed, err |-> None]
    ELSE LET value == service[MacPathKeys[k]]
         IN  IF ~value.found
             THEN [pushed |-> pushed,
                   err |-> Some(Error(Unknown, "Key {} missing in dict"))]
             ELSE IF value.cf # "string"
             THEN [pushed |-> pushed,
                   err |-> Some(Error(Unknown, "Found invalid type for TypeID"))]
             ELSE IF value.cstring = None
             THEN [pushed |-> pushed,
                   err |-> Some(Error(Unknown, "Failed to get C string from path"))]
             ELSE mac_keys_from(service, k + 1,
                    Append(pushed,
                           SerialPortInfo(value.cstring[1],
                                          port_type_macos(service.registry))))

\* The iteration reading the key IOCalloutDevice for both keys.
mac_service_callout_twice(service) ==
    IF service.props_ok
    THEN mac_keys_from([service EXCEPT !.IODialinDevice = service.IOCalloutDevice],
                       1, <<>>)
    ELSE [pushed |-> <<>>, err |-> Some(Error(Unknown, "ERROR: {}"))]

\* One iteration of the loop over the matching services.
mac_service(service) ==
    IF service.props_ok THEN mac_keys_from(service, 1, <<>>)
    ELSE [pushed |-> <<>>, err |-> Some(Error(Unknown, "ERROR: {}"))]

MacService ==
    /\ platform = "macos"
    /\ pc = "loop"
    /\ pos < Len(candidates)
    /\ LET step == mac_service(candidates[pos + 1])
       IN  /\ pos' = pos + 1
           /\ vec' = vec \o step.pushed
           /\ IF step.err = None
              THEN UNCHANGED <<pc, ret>>
              ELSE /\ pc' = "returned"
                   /\ ret' = Some(ResultErr(step.err[1]))
    /\ UNCHANGED <<builder, prev, call, chain, moda, minfo, udevVars, portVars,
                   platform, candidates, opened, linkVars, cmVars>>

(***************************************************************************)
(* available_ports on Linux without libudev: /sys/class/tty                *)
(***************************************************************************)
\* The file driver_override of an entry: absent, failing to open, failing to
\* be read, or read with its content.
NoOverride == [is_file |-> FALSE]

OverrideOpenFails(kind) == [is_file |-> TRUE, open |-> ResultErr(io_Error(kind, ""))]

OverrideReadFails(kind) ==
    [is_file |-> TRUE, open |-> ResultOk("File"),
     read_to_string |-> ResultErr(io_Error(kind, ""))]

OverrideOf(content) ==
    [is_file |-> TRUE, open |-> ResultOk("File"), read_to_string |-> ResultOk(content)]

Str_null == <<"(", "n", "u", "l", "l", ")", "\n">>

\* An entry of /sys/class/tty: the result of reading it, whether its device
\* is a directory, its driver_override, its file name and whether /dev holds
\* a file of that name.
DirEntry(entry, device_is_dir, driver_override, file_name, device_file_exists) ==
    [entry |-> entry, device_is_dir |-> device_is_dir,
     driver_override |-> driver_override, file_name |-> file_name,
     device_file_exists |-> device_file_exists]

\* The entries the directory hands to the scan, before they are named.
ScanEntries ==
    {DirEntry(ResultOk("DirEntry"), TRUE, NoOverride, <<>>, TRUE),
     DirEntry(ResultErr(io_Error("PermissionDenied", "")), TRUE, NoOverride, <<>>, TRUE),
     DirEntry(ResultOk("DirEntry"), FALSE, NoOverride, <<>>, TRUE),
     DirEntry(ResultOk("DirEntry"), TRUE, OverrideOf(Str_null), <<>>, TRUE),
     DirEntry(ResultOk("DirEntry"), TRUE, OverrideOf(<<"x", "\n">>), <<>>, TRUE),
     DirEntry(ResultOk("DirEntry"), TRUE, OverrideOpenFails("PermissionDenied"), <<>>, TRUE),
     DirEntry(ResultOk("DirEntry"), TRUE, OverrideReadFails("InvalidData"), <<>>, TRUE),
     DirEntry(ResultOk("DirEntry"), TRUE, NoOverride, <<>>, FALSE)}

\* A directory holds no two entries of the same name.
SysfsCandidates ==
    {[i \in DOMAIN shapes |->
        [shapes[i] EXCEPT !.file_name = <<"t", "t", "y", Digit(i)>>]] :
        shapes \in SeqsUpTo(ScanEntries, MaxDevices)}

\* Path::join of /dev and a file name
device_path_join(file_name) == <<"/", "d", "e", "v", "/">> \o file_name

\* read_dir fails: expect panics.
SysfsNoClassDir ==
    /\ platform = "sysfs"
    /\ pc = "setup"
    /\ pc' = "panicked"
    /\ UNCHANGED <<builder, prev, call, chain, moda, minfo, udevVars, portVars,
                   platform, candidates, opened, pos, vec, ret, linkVars, cmVars>>

\* One iteration of the loop over the directory: the entries pushed and the
\* error of an early return, if any.
sysfs_entry(e) ==
    IF ~e.entry.ok
    THEN [pushed |-> <<>>, err |-> Some(From_io_Error_for_Error(e.entry.e))]
    ELSE IF ~e.device_is_dir THEN [pushed |-> <<>>, err |-> None]
    ELSE IF e.driver_override.is_file /\ ~e.driver_override.open.ok
    THEN [pushed |-> <<>>,
          err |-> Some(From_io_Error_for_Error(e.driver_override.open.e))]
    ELSE IF e.driver_override.is_file /\ ~e.driver_override.read_to_string.ok
    THEN [pushed |-> <<>>,
          err |-> Some(From_io_Error_for_Error(e.driver_override.read_to_string.e))]
    ELSE IF e.driver_override.is_file /\ e.driver_override.read_to_string.v = Str_null
    THEN [pushed |-> <<>>, err |-> None]
    ELSE IF ~e.device_file_exists THEN [pushed |-> <<>>, err |-> None]
    ELSE [pushed |-> <<SerialPortInfo(device_path_join(e.file_name), UnknownPort)>>,
          err |-> None]

SysfsEntry ==
    /\ platform = "sysfs"
    /\ pc = "loop"
    /\ pos < Len(candidates)
    /\ LET step == sysfs_entry(candidates[pos + 1])
       IN  /\ pos' = pos + 1
           /\ vec' = vec \o step.pushed
           /\ IF step.err = None
              THEN UNCHANGED <<pc, ret>>
              ELSE /\ pc' = "returned"
                   /\ ret' = Some(ResultErr(step.err[1]))
    /\ UNCHANGED <<builder, prev, call, chain, moda, minfo, udevVars, portVars,
                   platform, candidates, opened, linkVars, cmVars>>

Platforms == {"udev", "macos", "sysfs"}

InitScan ==
    /\ platform \in Platforms
    /\ candidates \in CASE platform = "udev" -> UdevCandidates
                        [] platform = "macos" -> MacCandidates
                        [] platform = "sysfs" -> SysfsCandidates
    /\ pc = "setup"
    /\ pos = 0
    /\ vec = <<>>
    /\ ret = None
    /\ opened = <<>>
    /\ builder = NoBuilder
    /\ prev = NoBuilder
    /\ call = Idle
    /\ chain = <<>>
    /\ moda = <<>>
    /\ minfo = Idle
    /\ IdleUdev
    /\ IdlePort
    /\ IdleLink
    /\ IdleCm

NextScan ==
    \/ UdevNoContext
    \/ UdevSetupFails
    \/ MacSetupFails
    \/ SysfsNoClassDir
    \/ SetupDone
    \/ UdevDevice
    \/ MacService
    \/ SysfsEntry
    \/ ScanDone

SpecScan == InitScan /\ [][NextScan]_vars

(***************************************************************************)
(* An open port: the SerialPort trait, its handles and `&mut T`            *)
(***************************************************************************)
\* The operations of the trait SerialPort.
Getters ==
    {"name", "baud_rate", "data_bits", "flow_control", "parity", "stop_bits",
     "timeout"}

Setters ==
    {"set_baud_rate", "set_data_bits", "set_flow_control", "set_parity",
     "set_stop_bits", "set_timeout"}

PinWriters == {"write_request_to_send", "write_data_terminal_ready"}

PinReaders ==
    {"read_clear_to_send", "read_data_set_ready", "read_ring_indicator",
     "read_carrier_detect"}

SerialPortOps ==
    Getters \cup Setters \cup PinWriters \cup PinReaders
        \cup {"bytes_to_read", "bytes_to_write", "clear", "try_clone",
              "set_break", "clear_break"}

ClearBuffer == {"Input", "Output", "All"}

\* const RESET_BAUD_RATE
RESET_BAUD_RATE == 300

\* The cases of the template standard_baud_rates.
standard_baud_rates == {9600, 57600, 115200, 921600, 2000000}

\* The cases of the template non_standard_baud_rates.
non_standard_baud_rates == {1000, 42000, 100000, 1234000, 2345000}

\* The rates a platform without arbitrary rates can set.
SupportedBaudRates == standard_baud_rates \cup {RESET_BAUD_RATE}

\* The unit value ().
Unit == "()"

\* The arguments the calls are made with.
ArgsOf(op) ==
    CASE op = "set_baud_rate" -> {9600, 1000, 2345000}
      [] op = "set_data_bits" -> {"Seven"}
      [] op = "set_flow_control" -> {"Hardware"}
      [] op = "set_parity" -> {"Odd"}
      [] op = "set_stop_bits" -> {"Two"}
      [] op = "set_timeout" -> {from_millis(1)}
      [] op \in PinWriters -> BOOLEAN
      [] op = "clear" -> ClearBuffer
      [] OTHER -> {Unit}

\* The setting a getter reads and a setter writes.
SettingOf(op) ==
    CASE op \in {"baud_rate", "set_baud_rate"} -> "baud_rate"
      [] op \in {"data_bits", "set_data_bits"} -> "data_bits"
      [] op \in {"flow_control", "set_flow_control"} -> "flow_control"
      [] op \in {"parity", "set_parity"} -> "parity"
      [] op \in {"stop_bits", "set_stop_bits"} -> "stop_bits"
      [] op \in {"timeout", "set_timeout"} -> "timeout"

\* The pin an operation writes or reads.
PinOf(op) ==
    CASE op = "write_request_to_send" -> "rts"
      [] op = "write_data_terminal_ready" -> "dtr"
      [] op = "read_clear_to_send" -> "cts"
      [] op = "read_data_set_ready" -> "dsr"
      [] op = "read_ring_indicator" -> "ri"
      [] op = "read_carrier_detect" -> "cd"

\* The result of a call with the device and the handles it leaves.
Outcome(result, dev, hs) == [result |-> result, native |-> dev, handles |-> hs]

\* set_baud_rate storing the rate in the handle before the device rejects it.
set_baud_rate_caching_first(baud, h, dev, hs) ==
    IF ~dev.arbitrary_rates /\ baud \notin SupportedBaudRates
    THEN Outcome(ResultErr(Error(InvalidInput, "")), dev,
                 [hs EXCEPT ![h].baud_rate = baud])
    ELSE Outcome(ResultOk(Unit), [dev EXCEPT !.baud_rate = baud],
                 [hs EXCEPT ![h].baud_rate = baud])

\* set_baud_rate on the handle h: a platform without arbitrary rates rejects
\* a rate it has no constant for and changes nothing.
set_baud_rate(baud, h, dev, hs) ==
    IF ~dev.arbitrary_rates /\ baud \notin SupportedBaudRates
    THEN Outcome(ResultErr(Error(InvalidInput, "")), dev, hs)
    ELSE Outcome(ResultOk(Unit), [dev EXCEPT !.baud_rate = baud],
                 [hs EXCEPT ![h].baud_rate = baud])

\* A setter writing the setting to the caches of all handles of the device.
set_setting_synchronizing(op, arg, h, dev, hs) ==
    Outcome(ResultOk(Unit), [dev EXCEPT ![SettingOf(op)] = arg],
            [i \in DOMAIN hs |-> [hs[i] EXCEPT ![SettingOf(op)] = arg]])

\* A setter other than set_baud_rate on the handle h: the setting is applied
\* to the device and cached in the handle.
set_setting(op, arg, h, dev, hs) ==
    Outcome(ResultOk(Unit), [dev EXCEPT ![SettingOf(op)] = arg],
            [hs EXCEPT ![h][SettingOf(op)] = arg])

\* The operation op of the port with argument arg on the handle h.
SerialPort_call(op, arg, h, dev, hs) ==
    CASE op = "name" -> Outcome(Some(dev.name), dev, hs)
      [] op = "timeout" -> Outcome(hs[h].timeout, dev, hs)
      [] op \in Getters \ {"name", "timeout"} ->
            Outcome(ResultOk(hs[h][SettingOf(op)]), dev, hs)
      [] op = "set_baud_rate" -> set_baud_rate(arg, h, dev, hs)
      [] op \in Setters \ {"set_baud_rate"} -> set_setting(op, arg, h, dev, hs)
      [] op \in PinWriters ->
            Outcome(ResultOk(Unit), [dev EXCEPT ![PinOf(op)] = arg], hs)
      [] op \in PinReaders -> Outcome(ResultOk(dev[PinOf(op)]), dev, hs)
      [] op = "bytes_to_read" -> Outcome(ResultOk(dev.input), dev, hs)
      [] op = "bytes_to_write" -> Outcome(ResultOk(dev.output), dev, hs)
      [] op = "clear" ->
            Outcome(ResultOk(Unit),
                    [dev EXCEPT !.input = IF arg = "Output" THEN @ ELSE 0,
                                !.output = IF arg = "Input" THEN @ ELSE 0],
                    hs)
      [] op = "try_clone" ->
            Outcome(ResultOk(Len(hs) + 1), dev, Append(hs, hs[h]))
      [] op = "set_break" ->
            Outcome(ResultOk(Unit), [dev EXCEPT !.break = TRUE], hs)
      [] op = "clear_break" ->
            Outcome(ResultOk(Unit), [dev EXCEPT !.break = FALSE], hs)

\* impl<T: SerialPort> SerialPort for &mut T with read_data_set_ready
\* forwarded to read_clear_to_send.
Forwarded_misrouted(op) ==
    CASE op = "read_data_set_ready" -> "read_clear_to_send"
      [] OTHER -> op

\* impl<T: SerialPort> SerialPort for &mut T: the method of T each method of
\* the reference calls.
Forwarded(op) ==
    CASE op = "name" -> "name"
      [] op = "baud_rate" -> "baud_rate"
      [] op = "data_bits" -> "data_bits"
      [] op = "flow_control" -> "flow_control"
      [] op = "parity" -> "parity"
      [] op = "stop_bits" -> "stop_bits"
      [] op = "timeout" -> "timeout"
      [] op = "set_baud_rate" -> "set_baud_rate"
      [] op = "set_data_bits" -> "set_data_bits"
      [] op = "set_flow_control" -> "set_flow_control"
      [] op = "set_parity" -> "set_parity"
      [] op = "set_stop_bits" -> "set_stop_bits"
      [] op = "set_timeout" -> "set_timeout"
      [] op = "write_request_to_send" -> "write_request_to_send"
      [] op = "write_data_terminal_ready" -> "write_data_terminal_ready"
      [] op = "read_clear_to_send" -> "read_clear_to_send"
      [] op = "read_data_set_ready" -> "read_data_set_ready"
      [] op = "read_ring_indicator" -> "read_ring_indicator"
      [] op = "read_carrier_detect" -> "read_carrier_detect"
      [] op = "bytes_to_read" -> "bytes_to_read"
      [] op = "bytes_to_write" -> "bytes_to_write"
      [] op = "clear" -> "clear"
      [] op = "try_clone" -> "try_clone"
      [] op = "set_break" -> "set_break"
      [] op = "clear_break" -> "clear_break"

\* The operation op called on a `&mut T`: (**self).op(arg)
RefMut_call(op, arg, h, dev, hs) == SerialPort_call(Forwarded(op), arg, h, dev, hs)

\* A u32 as its two 16-bit halves: the value is hi * 2^16 + lo.
U32(hi, lo) == [hi |-> hi, lo |-> lo]

\* The u32 of a number below 2^31.
u32_from(n) == U32(n \div (u16_MAX + 1), n % (u16_MAX + 1))

\* a < b and a <= b on u32
u32_lt(a, b) == a.hi < b.hi \/ (a.hi = b.hi /\ a.lo < b.lo)

u32_le(a, b) == a.hi < b.hi \/ (a.hi = b.hi /\ a.lo <= b.lo)

\* a / d on u32 for a divisor d below 2^15: long division over the halves
u32_div(a, d) ==
    U32(a.hi \div d, ((a.hi % d) * (u16_MAX + 1) + a.lo) \div d)

\* u32::checked_add: None on overflow
checked_add(a, b) ==
    LET lo == a.lo + b.lo
        hi == a.hi + b.hi + lo \div (u16_MAX + 1)
    IN  IF hi > u16_MAX THEN None ELSE Some(U32(hi, lo % (u16_MAX + 1)))

\* u32::checked_sub: None on underflow
checked_sub(a, b) ==
    IF u32_lt(a, b) THEN None
    ELSE LET borrow == IF a.lo < b.lo THEN 1 ELSE 0
         IN  Some(U32(a.hi - b.hi - borrow,
                      a.lo + borrow * (u16_MAX + 1) - b.lo))

\* accepted_actual_baud_for: the half-open range start..end around baud, or
\* the panic of unwrap() on a None of checked_sub or checked_add
accepted_actual_baud_for(baud) ==
    LET divisor == IF u32_lt(u32_from(1000000), baud) THEN 33 ELSE 200
        delta == u32_div(baud, divisor)
        start == checked_sub(baud, delta)
        end == checked_add(baud, delta)
    IN  IF start = None \/ end = None THEN Panicked
        ELSE [start |-> start[1], end |-> end[1]]

\* Range::contains
contains(range, item) == u32_le(range.start, item) /\ u32_lt(item, range.end)

\* The body of check_baud_rate for a port reporting the rate `actual`: the
\* assertion passes, fails, or accepted_actual_baud_for panics before it.
assert_accepted(baud, actual) ==
    LET accepted == accepted_actual_baud_for(baud)
    IN  IF accepted = Panicked THEN "panicked"
        ELSE IF contains(accepted, actual) THEN "passed"
        ELSE "assertion failed"

\* check_baud_rate on the handle h: the assertion holds
check_baud_rate(h, dev, hs, baud) ==
    LET actual == SerialPort_call("baud_rate", Unit, h, dev, hs).result
    IN  actual.ok /\ assert_accepted(u32_from(baud), u32_from(actual.v)) = "passed"

\* The bounds on the calls made and on the handles of the device.
MaxCalls == 3

MaxHandles == 2

\* A call on a handle, made on the port or through a `&mut` to it.
Invoke(via, op, arg, h) ==
    /\ ncalls < MaxCalls
    /\ op = "try_clone" => Len(handles) < MaxHandles
    /\ LET out == IF via = "ref"
                  THEN RefMut_call(op, arg, h, native, handles)
                  ELSE SerialPort_call(op, arg, h, native, handles)
       IN  /\ native' = out.native
           /\ handles' = out.handles
           /\ invoked' = [via |-> via, op |-> op, arg |-> arg, handle |-> h,
                          result |-> out.result]
    /\ ncalls' = ncalls + 1
    /\ UNCHANGED <<builder, prev, call, chain, moda, minfo, udevVars, scanVars, linkVars, cmVars>>

CallOnPort ==
    \E h \in DOMAIN handles, op \in SerialPortOps :
        \E arg \in ArgsOf(op) : Invoke("direct", op, arg, h)

CallThroughRef ==
    \E h \in DOMAIN handles, op \in SerialPortOps :
        \E arg \in ArgsOf(op) : Invoke("ref", op, arg, h)

\* An open port after serialport::new(path, RESET_BAUD_RATE).open()
OpenPort(arbitrary_rates, dsr) ==
    [name |-> Str_dev_ttyUSB0, arbitrary_rates |-> arbitrary_rates,
     baud_rate |-> RESET_BAUD_RATE, data_bits |-> "Eight",
     flow_control |-> "None", parity |-> "None", stop_bits |-> "One",
     timeout |-> from_millis(0),
     rts |-> TRUE, dtr |-> TRUE, cts |-> TRUE, dsr |-> dsr, ri |-> FALSE,
     cd |-> FALSE, input |-> 1, output |-> 1, break |-> FALSE]

\* The settings a handle caches.
CacheOf(dev) ==
    [f \in {"baud_rate", "data_bits", "flow_control", "parity", "stop_bits",
            "timeout"} |-> dev[f]]

Opened == [op |-> "open"]

InitPort ==
    /\ \E arbitrary_rates \in BOOLEAN :
            /\ native = OpenPort(arbitrary_rates, FALSE)
            /\ handles = <<CacheOf(OpenPort(arbitrary_rates, FALSE))>>
    /\ invoked = Opened
    /\ ncalls = 0
    /\ builder = NoBuilder
    /\ prev = NoBuilder
    /\ call = Idle
    /\ chain = <<>>
    /\ moda = <<>>
    /\ minfo = Idle
    /\ IdleUdev
    /\ IdleScan
    /\ IdleLink
    /\ IdleCm

NextPort ==
    \/ CallOnPort
    \/ CallThroughRef

SpecPort == InitPort /\ [][NextPort]_vars

(***************************************************************************)
(* A loopback between two ports: the frames of the asynchronous link       *)
(***************************************************************************)
\* The i-th bit of a byte, the least significant being bit 0.
Bit(byte, i) == (byte \div (2 ^ i)) % 2

RECURSIVE Ones(_)
Ones(bits) == IF bits = <<>> THEN 0 ELSE Head(bits) + Ones(Tail(bits))

\* The parity modes of the loopback tests.
LinkParity == Parity \cup {"Mark", "Space"}

\* The parity bit sent after the data bits.
parity_bit(mode, bits) ==
    CASE mode = "Odd" -> IF Ones(bits) % 2 = 0 THEN 1 ELSE 0
      [] mode = "Even" -> IF Ones(bits) % 2 = 0 THEN 0 ELSE 1
      [] mode = "Mark" -> 1
      [] mode = "Space" -> 0

\* The line settings of a port of the loopback.
LineSettings(data_bits_, parity_) == [data_bits |-> data_bits_, parity |-> parity_]

\* The frame of a byte: start bit, data bits from the least significant,
\* parity bit if any, stop bit.
transmit(byte, settings) ==
    LET n == From_DataBits_for_u8(settings.data_bits)
        bits == [i \in 1..n |-> Bit(byte, i - 1)]
    IN  <<0>> \o bits
            \o (IF settings.parity = "None" THEN <<>>
                ELSE <<parity_bit(settings.parity, bits)>>)
            \o <<1>>

\* What a read yields for a frame with a wrong parity bit or a wrong length.
ParityError == 0 - 1

FramingError == 0 - 2

RECURSIVE ByteOf(_)
ByteOf(bits) == IF bits = <<>> THEN 0 ELSE Head(bits) + 2 * ByteOf(Tail(bits))

\* The byte a receiver reads from a frame: the data bits with the parity bit
\* checked and removed.
receive(frame, settings) ==
    LET n == From_DataBits_for_u8(settings.data_bits)
        expected == n + 2 + (IF settings.parity = "None" THEN 0 ELSE 1)
        bits == SubSeq(frame, 2, n + 1)
    IN  IF Len(frame) # expected \/ frame[1] # 0 \/ frame[Len(frame)] # 1
        THEN FramingError
        ELSE IF /\ settings.parity # "None"
                /\ frame[n + 2] # parity_bit(settings.parity, bits)
        THEN ParityError
        ELSE ByteOf(bits)

\* const MESSAGE: [u8; 10] = *b"0123456789"
MESSAGE == <<48, 49, 50, 51, 52, 53, 54, 55, 56, 57>>

\* The cases of the emulated parity tests with the bytes of Odd and Even
\* exchanged.
message_with_parity_exchanged(mode) ==
    CASE mode = "Even" -> <<176, 49, 50, 179, 52, 181, 182, 55, 56, 185>>
      [] mode = "Odd" -> <<48, 177, 178, 51, 180, 53, 54, 183, 184, 57>>
      [] mode = "Mark" -> <<176, 177, 178, 179, 180, 181, 182, 183, 184, 185>>
      [] mode = "Space" -> MESSAGE

\* The cases of test_emulated_standard_parity and
\* test_emulated_mark_space_parity: MESSAGE with the parity in the 8th bit.
message_with_parity(mode) ==
    CASE mode = "Odd" -> <<176, 49, 50, 179, 52, 181, 182, 55, 56, 185>>
      [] mode = "Even" -> <<48, 177, 178, 51, 180, 53, 54, 183, 184, 57>>
      [] mode = "Mark" -> <<176, 177, 178, 179, 180, 181, 182, 183, 184, 185>>
      [] mode = "Space" -> MESSAGE

\* A 7-bit byte with the parity bit of the mode as its 8th bit.
with_parity(byte, mode) ==
    byte + 128 * parity_bit(mode, [i \in 1..7 |-> Bit(byte, i - 1)])

SevenBitBytes == 0 .. 127

\* The sender and the receiver of a test with the message to convey and the
\* bytes handed to write_all.
Loopback(tx, rx, message, written) ==
    /\ sender = [settings |-> tx, message |-> message, queue |-> written]
    /\ line = <<>>
    /\ receiver = [settings |-> rx, buffer |-> <<>>]

\* test_end_to_end
InitEndToEnd ==
    \E mode \in Parity :
        Loopback(LineSettings("Eight", mode), LineSettings("Eight", mode),
                 MESSAGE, MESSAGE)

\* test_emulated_standard_parity and test_emulated_mark_space_parity, and the
\* same set-up for every single 7-bit byte.
InitEmulated ==
    \E mode \in LinkParity \ {"None"} :
        \/ Loopback(LineSettings("Eight", "None"), LineSettings("Seven", mode),
                    MESSAGE, message_with_parity(mode))
        \/ \E byte \in SevenBitBytes :
                Loopback(LineSettings("Eight", "None"),
                         LineSettings("Seven", mode),
                         <<byte>>, <<with_parity(byte, mode)>>)

\* sender.write_all: the next byte is framed and put on the wire.
Write ==
    /\ sender # Idle
    /\ sender.queue # <<>>
    /\ sender' = [sender EXCEPT !.queue = Tail(@)]
    /\ line' = Append(line, transmit(Head(sender.queue), sender.settings))
    /\ UNCHANGED <<builder, prev, call, chain, moda, minfo, udevVars, scanVars,
                   portVars, receiver, cmVars>>

\* receiver.read_exact: the next frame is taken off the wire.
Read ==
    /\ receiver # Idle
    /\ line # <<>>
    /\ line' = Tail(line)
    /\ receiver' = [receiver EXCEPT
                        !.buffer = Append(@, receive(Head(line), receiver.settings))]
    /\ UNCHANGED <<builder, prev, call, chain, moda, minfo, udevVars, scanVars,
                   portVars, sender, cmVars>>

InitLink ==
    /\ InitEndToEnd \/ InitEmulated
    /\ builder = NoBuilder
    /\ prev = NoBuilder
    /\ call = Idle
    /\ chain = <<>>
    /\ moda = <<>>
    /\ minfo = Idle
    /\ IdleUdev
    /\ IdleScan
    /\ IdlePort
    /\ IdleCm

NextLink ==
    \/ Write
    \/ Read

SpecLink == InitLink /\ [][NextLink]_vars

(***************************************************************************)
(* windows/cm.rs: the iterator over the parents of a device instance       *)
(***************************************************************************)
\* The status CM_Get_Parent reports on success, and the statuses of the model.
CR_SUCCESS == 0

CONFIGRET == {CR_SUCCESS, 13, 19}

\* The bounds on the device instances of a tree and on the calls of next().
MaxInstances == 4

MaxNext == 6

DEVINST == 1..MaxInstances

\* The device trees: every instance has a parent with a smaller handle, or its
\* parent query fails; the root, instance 1, has no parent.
RECURSIVE TreesOver(_)
TreesOver(n) ==
    IF n = 0
    THEN {<<>>}
    ELSE {Append(t, e) :
            t \in TreesOver(n - 1),
            e \in {[status |-> CR_SUCCESS, parent |-> p] : p \in 1..(n - 1)}
                    \cup {[status |-> s, parent |-> 0] : s \in CONFIGRET \ {CR_SUCCESS}}}

DeviceTrees == TreesOver(MaxInstances)

\* CM_Get_Parent(&mut parent, instance, 0) in the tree: the status and the
\* value left in `parent`.
CM_Get_Parent(tree, instance) == tree[instance]

\* ParentInstances::from_handle
from_handle(handle) == [instance |-> Some(handle)]

\* next() yielding the instance it held before the parent query.
next_yielding_held_instance(self, tree) ==
    IF self.instance = None
    THEN [self |-> self, item |-> None, queries |-> <<>>]
    ELSE LET instance == self.instance[1]
             answer == CM_Get_Parent(tree, instance)
         IN  [self |-> [self EXCEPT !.instance =
                            IF answer.status = CR_SUCCESS
                            THEN Some(answer.parent) ELSE None],
              item |-> self.instance,
              queries |-> <<instance>>]

\* Iterator::next for ParentInstances: the iterator after the call, the item
\* returned and the instances CM_Get_Parent was called with.
next(self, tree) ==
    IF self.instance = None
    THEN [self |-> self, item |-> None, queries |-> <<>>]
    ELSE LET instance == self.instance[1]
             answer == CM_Get_Parent(tree, instance)
             after == [self EXCEPT !.instance =
                            IF answer.status = CR_SUCCESS
                            THEN Some(answer.parent) ELSE None]
         IN  [self |-> after, item |-> after.instance, queries |-> <<instance>>]

\* A call of next() on the iterator.
CallNext ==
    /\ iterator # Idle
    /\ Len(yielded) < MaxNext
    /\ LET step == next(iterator, devtree)
       IN  /\ iterator' = step.self
           /\ yielded' = Append(yielded, step.item)
           /\ queried' = queried \o step.queries
    /\ UNCHANGED <<builder, prev, call, chain, moda, minfo, udevVars, scanVars,
                   portVars, linkVars, devtree>>

\* An iterator created by from_handle from a handle of a device tree.
InitCm ==
    /\ devtree \in DeviceTrees
    /\ \E handle \in DEVINST : iterator = from_handle(handle)
    /\ yielded = <<>>
    /\ queried = <<>>
    /\ builder = NoBuilder
    /\ prev = NoBuilder
    /\ call = Idle
    /\ chain = <<>>
    /\ moda = <<>>
    /\ minfo = Idle
    /\ IdleUdev
    /\ IdleScan
    /\ IdlePort
    /\ IdleLink

NextCm == CallNext

SpecCm == InitCm /\ [][NextCm]_vars

(***************************************************************************)
(* open() and available_ports() by build target (lib.rs, cfg attributes)   *)
(***************************************************************************)
\* A build target: its family (cfg(unix), cfg(windows) or neither) and its
\* target_os.
Target(family, target_os) == [family |-> family, target_os |-> target_os]

Targets ==
    {Target("unix", os) : os \in {"macos", "ios", "linux", "freebsd", "netbsd",
                                  "openbsd", "android"}}
    \cup {Target("windows", "windows")}
    \cup {Target("other", os) : os \in {"wasi", "unknown"}}

\* What the backend of a supported target can answer: TTYPort::open and
\* COMPort::open give a port or an error, an enumerator a list or an error.
BackendOpens ==
    {ResultOk("port"), ResultErr(Error(NoDevice, "")),
     ResultErr(Error(InvalidInput, ""))}

BackendLists ==
    {ResultOk(<<>>), ResultOk(<<SerialPortInfo(Str_dev_ttyUSB0, UnknownPort)>>),
     ResultErr(Error(Unknown, ""))}

\* SerialPortBuilder::open: the results the call can have on the target.
open(self, target) ==
    CASE target.family = "unix" -> BackendOpens
      [] target.family = "windows" -> BackendOpens
      [] OTHER -> {ResultErr(Error(Unknown, "open() not implemented for platform"))}

\* posix::available_ports on a target without an enumerator returning an
\* empty list.
posix_available_ports_empty(target) ==
    IF target.target_os \in {"ios", "macos", "linux", "freebsd"}
    THEN BackendLists
    ELSE {ResultOk(<<>>)}

\* posix::available_ports: the branch cfg_if! selects for the target_os.
posix_available_ports(target) ==
    IF target.target_os \in {"ios", "macos"} THEN BackendLists
    ELSE IF target.target_os = "linux" THEN BackendLists
    ELSE IF target.target_os = "freebsd" THEN BackendLists
    ELSE {ResultErr(Error(Unknown, "Not implemented for this OS"))}

\* available_ports (lib.rs): the results the call can have on the target.
available_ports(target) ==
    CASE target.family = "unix" -> posix_available_ports(target)
      [] target.family = "windows" -> BackendLists
      [] OTHER -> {ResultErr(Error(Unknown,
                        "available_ports() not implemented for platform"))}

\* builder.open() on the target.
CallOpen ==
    /\ builder # NoBuilder
    /\ platform \in Targets
    /\ call.op # "open"
    /\ \E result \in open(builder, platform) :
            call' = [op |-> "open", self |-> builder, result |-> result]
    /\ UNCHANGED <<builder, prev, chain, moda, minfo, udevVars, scanVars,
                   portVars, linkVars, cmVars>>

\* available_ports() on the target.
CallAvailablePorts ==
    /\ platform \in Targets
    /\ ret = None
    /\ \E result \in available_ports(platform) : ret' = Some(result)
    /\ UNCHANGED <<builder, prev, call, chain, moda, minfo, udevVars, portVars,
                   platform, candidates, pc, pos, vec, opened, linkVars, cmVars>>

\* A builder and no call of available_ports yet, on any target.
InitTarget ==
    /\ InitBuilder
    /\ platform \in Targets
    /\ candidates = <<>>
    /\ pc = Idle
    /\ pos = 0
    /\ vec = <<>>
    /\ ret = None
    /\ opened = <<>>
    /\ chain = <<>>
    /\ moda = <<>>
    /\ minfo = Idle
    /\ IdleUdev
    /\ IdlePort
    /\ IdleLink
    /\ IdleCm

NextTarget ==
    \/ CallOpen
    \/ CallAvailablePorts

SpecTarget == InitTarget /\ [][NextTarget]_vars

(***************************************************************************)
(* tests/test_baudrate.rs: the band of accepted actual baud rates          *)
(***************************************************************************)
\* The requested baud rates: u32 values around the limits of the band, among
\* them the rates below 200, 1,000,000 (15 * 2^16 + 16960) and its successor,
\* the largest rate whose band ends within u32 (63608 * 2^16 + 30840) and
\* u32::MAX.
BaudInputs ==
    {U32(hi, lo) : hi \in {0, 15, 16, 63608, u16_MAX},
                   lo \in {0, 1, 50, 110, 199, 200, 300, 9600, 16960, 16961,
                           30840, 30841, u16_MAX}}

\* accepted_actual_baud_for(baud)
AcceptedBand ==
    /\ call # Idle
    /\ call.op = "requested"
    /\ call' = [op |-> "accepted_actual_baud_for", baud |-> call.baud,
                result |-> accepted_actual_baud_for(call.baud)]
    /\ UNCHANGED <<builder, prev, chain, moda, minfo, udevVars, scanVars,
                   portVars, linkVars, cmVars>>

\* check_baud_rate(port, baud) for a port that reports the requested rate or
\* the rate above it.
CheckBaudRate ==
    /\ call # Idle
    /\ call.op = "requested"
    /\ \E actual \in {call.baud} \cup
                     (IF checked_add(call.baud, U32(0, 1)) = None THEN {}
                      ELSE {checked_add(call.baud, U32(0, 1))[1]}) :
            call' = [op |-> "check_baud_rate", baud |-> call.baud,
                     actual |-> actual,
                     result |-> assert_accepted(call.baud, actual)]
    /\ UNCHANGED <<builder, prev, chain, moda, minfo, udevVars, scanVars,
                   portVars, linkVars, cmVars>>

InitBaud ==
    /\ \E baud \in BaudInputs : call = [op |-> "requested", baud |-> baud]
    /\ builder = NoBuilder
    /\ prev = NoBuilder
    /\ chain = <<>>
    /\ moda = <<>>
    /\ minfo = Idle
    /\ IdleUdev
    /\ IdleScan
    /\ IdlePort
    /\ IdleLink
    /\ IdleCm

NextBaud ==
    \/ AcceptedBand
    \/ CheckBaudRate

SpecBaud == InitBaud /\ [][NextBaud]_vars

(***************************************************************************)
(* Sequences of setter calls on a builder                                  *)
(***************************************************************************)
\* The bound on the setter calls of a sequence.
MaxSetterCalls == 3

\* The arguments of the setter calls of a sequence.
SetterArgs(op) ==
    CASE op = "path" -> {"/dev/ttyUSB0", "COM3"}
      [] op = "baud_rate" -> {9600, 115200}
      [] op = "data_bits" -> {"Seven", "Eight"}
      [] op = "flow_control" -> {"Hardware"}
      [] op = "parity" -> {"None", "Even"}
      [] op = "stop_bits" -> {"Two"}
      [] op = "timeout" -> {from_millis(0), from_millis(1500)}

\* The setter of the builder named op, called with arg.
Setter(op, self, arg) ==
    CASE op = "path" -> path(self, arg)
      [] op = "baud_rate" -> baud_rate(self, arg)
      [] op = "data_bits" -> data_bits(self, arg)
      [] op = "flow_control" -> flow_control(self, arg)
      [] op = "parity" -> parity(self, arg)
      [] op = "stop_bits" -> stop_bits(self, arg)
      [] op = "timeout" -> timeout(self, arg)

\* One more setter call of the sequence; chain is the sequence of the calls,
\* the call of new first.
ApplySetter ==
    /\ builder # NoBuilder
    /\ chain # <<>>
    /\ Len(chain) <= MaxSetterCalls
    /\ \E op \in BuilderFields :
        \E arg \in SetterArgs(op) :
            /\ builder' = Setter(op, builder, arg)
            /\ prev' = builder
            /\ call' = [op |-> op, arg |-> arg]
            /\ chain' = Append(chain, [op |-> op, arg |-> arg])
    /\ UNCHANGED <<moda, minfo, udevVars, scanVars, portVars, linkVars, cmVars>>

\* A builder obtained from new(p, b).
InitSetters ==
    /\ \E p \in {"/dev/ttyS0"}, b \in {300} :
            /\ builder = new(p, b)
            /\ call = [op |-> "new", path |-> p, baud_rate |-> b]
            /\ chain = <<[op |-> "new", path |-> p, baud_rate |-> b]>>
    /\ prev = NoBuilder
    /\ moda = <<>>
    /\ minfo = Idle
    /\ IdleUdev
    /\ IdleScan
    /\ IdlePort
    /\ IdleLink
    /\ IdleCm

NextSetters == ApplySetter

SpecSetters == InitSetters /\ [][NextSetters]_vars

Init ==
    /\ InitBuilder
    /\ chain = <<>>
    /\ moda = <<>>
    /\ minfo = Idle
    /\ IdleUdev
    /\ IdleScan
    /\ IdlePort
    /\ IdleLink
    /\ IdleCm

Next ==
    \/ CallPath
    \/ CallBaudRate
    \/ CallDataBits
    \/ CallFlowControl
    \/ CallParity
    \/ CallStopBits
    \/ CallTimeout

Spec == Init /\ [][Next]_vars

(***************************************************************************)
(* Claims about the builder                                                *)
(***************************************************************************)
\* C1: new(p, b) returns a builder whose path is p, whose baud rate is b and
\* whose other fields are the documented defaults: 8 data bits, no parity,
\* 1 stop bit, no flow control and a timeout of zero.
C1_NewDefaults ==
    call.op = "new" =>
        /\ builder.path = call.path
        /\ builder.baud_rate = call.baud_rate
        /\ builder.data_bits = "Eight"
        /\ builder.parity = "None"
        /\ builder.stop_bits = "One"
        /\ builder.flow_control = "None"
        /\ builder.timeout.secs = 0
        /\ builder.timeout.nanos = 0
        /\ DOMAIN builder = BuilderFields

C1_Witness ==
    /\ call.op = "new"
    /\ call.path = "/dev/ttyUSB0"
    /\ call.baud_rate = 9600
    /\ builder.path = "/dev/ttyUSB0"

\* C2: after a setter call the field the setter names equals the argument and
\* the six other fields have the values they had before the call.
C2_SetterFrame ==
    call.op \in BuilderFields =>
        /\ builder[call.op] = call.arg
        /\ \A f \in BuilderFields \ {call.op} : builder[f] = prev[f]
        /\ DOMAIN builder = BuilderFields

\* A parity call on a builder whose stop bits were changed from the default.
C2_Witness ==
    /\ call.op = "parity"
    /\ call.arg = "Even"
    /\ prev.parity = "None"
    /\ prev.stop_bits = "Two"
    /\ prev.flow_control = "Hardware"
    /\ prev.timeout # from_millis(0)

(***************************************************************************)
(* Claims about the conversions                                            *)
(***************************************************************************)
\* Positions i of the chain whose value has type t and has a successor of
\* type u, i.e. the conversion from t to u was applied to chain[i].
Steps(t, u) ==
    {i \in 1 .. Len(chain) - 1 : chain[i].ty = t /\ chain[i + 1].ty = u}

\* C3: converting a serial-port Error into a host I/O error maps NoDevice to
\* NotFound, InvalidInput to InvalidInput, Unknown to Other and Io(k) to k,
\* and produces no other host kind.
C3_ErrorToIoKind ==
    \A i \in Steps("Error", "io::Error") :
        LET e == chain[i]
            k == chain[i + 1].kind
        IN  /\ e.kind = NoDevice => k = "NotFound"
            /\ e.kind = InvalidInput => k = "InvalidInput"
            /\ e.kind = Unknown => k = "Other"
            /\ \A h \in IoErrorKind : e.kind = Io(h) => k = h
            /\ k \in {"NotFound", "InvalidInput", "Other"} \cup
                    {h \in IoErrorKind : e.kind = Io(h)}

C3_Witness ==
    /\ Len(chain) = 2
    /\ chain[1].ty = "Error"
    /\ chain[1].kind = Unknown
    /\ chain[2].ty = "io::Error"
    /\ chain[2].kind = "Other"

\* The three plain kinds with the host kind each is documented to map to.
MappedKind(kind) ==
    CASE kind.tag = "NoDevice" -> "NotFound"
      [] kind.tag = "InvalidInput" -> "InvalidInput"
      [] kind.tag = "Unknown" -> "Other"
      [] kind.tag = "Io" -> kind.io

\* C4: a host I/O error of kind k converted to a serial-port Error and back
\* has kind k again; a serial-port Error converted to a host I/O error and
\* back has kind Io(k') with k' the mapped host kind, so NoDevice,
\* InvalidInput and Unknown are never recovered.
C4_RoundTrip ==
    \A i \in 1 .. Len(chain) - 2 :
        /\ (chain[i].ty = "io::Error" /\ chain[i + 2].ty = "io::Error") =>
                chain[i + 2].kind = chain[i].kind
        /\ (chain[i].ty = "Error" /\ chain[i + 2].ty = "Error") =>
                /\ chain[i + 2].kind = Io(MappedKind(chain[i].kind))
                /\ chain[i + 2].kind \notin {NoDevice, InvalidInput, Unknown}

C4_Witness ==
    /\ Len(chain) = 3
    /\ chain[1].ty = "Error"
    /\ chain[1].kind = NoDevice
    /\ chain[3].ty = "Error"
    /\ chain[3].kind = Io("NotFound")

\* C5: u8::from(d) lies in 5..=8 and try_from of it is Ok(d); u8::from(s)
\* lies in 1..=2 and try_from of it is Ok(s); try_from(n) succeeds exactly
\* when n is in the range, and then converts back to n.
C5_IntegerConversionsInverse ==
    \A i \in 1 .. Len(chain) - 1 :
        LET x == chain[i]
            y == chain[i + 1]
        IN  /\ (x.ty = "DataBits" /\ y.ty = "u8") =>
                /\ y.v \in 5 .. 8
                /\ (i + 2 <= Len(chain) /\ chain[i + 2].of = "DataBits") =>
                        chain[i + 2] = Ok("DataBits", x.v)
            /\ (x.ty = "StopBits" /\ y.ty = "u8") =>
                /\ y.v \in 1 .. 2
                /\ (i + 2 <= Len(chain) /\ chain[i + 2].of = "StopBits") =>
                        chain[i + 2] = Ok("StopBits", x.v)
            /\ (x.ty = "u8" /\ y.ty \in {"Ok", "Err"}) =>
                /\ y.of = "DataBits" => (y.ty = "Ok" <=> x.v \in 5 .. 8)
                /\ y.of = "StopBits" => (y.ty = "Ok" <=> x.v \in 1 .. 2)
                /\ (y.ty = "Ok" /\ i + 2 <= Len(chain)) => chain[i + 2].v = x.v

C5_Witness ==
    /\ Len(chain) = 3
    /\ chain[1] = Val("DataBits", "Seven")
    /\ chain[2] = Val("u8", 7)
    /\ chain[3] = Ok("DataBits", "Seven")

\* The words the textual form of a flow-control value is made of.
WordsOf(f) ==
    CASE f = "None" -> {Str_none, Str_n}
      [] f = "Software" -> {Str_software, Str_sw, Str_s}
      [] f = "Hardware" -> {Str_hardware, Str_hw, Str_h}

\* C6 as stated: every string that equals one of the words ignoring letter
\* case parses to the word's value, every other string is rejected.
C6_CaseInsensitive ==
    \A i \in Steps("str", "Ok") \cup Steps("str", "Err") :
        LET s == chain[i].v
            r == chain[i + 1]
        IN  /\ \A f \in FlowControl :
                to_lowercase(s) \in WordsOf(f) => r = Ok("FlowControl", f)
            /\ (\A f \in FlowControl : to_lowercase(s) \notin WordsOf(f)) =>
                    r = Err("FlowControl")

\* The spellings from_str matches: all lower case, the words of more than two
\* letters with a capital initial, the two-letter words in upper case.
IsAcceptedSpelling(s) ==
    \/ s = to_lowercase(s)
    \/ /\ Len(s) > 2
       /\ s = [i \in DOMAIN s |-> IF i = 1 THEN to_ascii_uppercase(s[i])
                                           ELSE to_ascii_lowercase(s[i])]
    \/ /\ Len(s) = 2
       /\ s = to_uppercase(s)

\* C6 (amended): a string parses to the value of the word it spells when it is
\* written in one of the accepted spellings, and is rejected otherwise; other
\* case variants such as NONE, N or Sw are rejected.
C6_AcceptedSpellings ==
    \A i \in Steps("str", "Ok") \cup Steps("str", "Err") :
        LET s == chain[i].v
            r == chain[i + 1]
        IN  /\ \A f \in FlowControl :
                (to_lowercase(s) \in WordsOf(f) /\ IsAcceptedSpelling(s))
                    => r = Ok("FlowControl", f)
            /\ (\/ \A f \in FlowControl : to_lowercase(s) \notin WordsOf(f)
                \/ ~IsAcceptedSpelling(s)) => r = Err("FlowControl")

C6_Witness ==
    /\ Len(chain) = 2
    /\ chain[1] = Val("str", <<"S", "W">>)
    /\ chain[2] = Ok("FlowControl", "Software")

(***************************************************************************)
(* Claims about parse_modalias                                             *)
(***************************************************************************)
IsHexDigit(c) ==
    c \in {"0", "1", "2", "3", "4", "5", "6", "7", "8", "9",
           "a", "b", "c", "d", "e", "f", "A", "B", "C", "D", "E", "F"}

AllHex(s) == \A i \in DOMAIN s : IsHexDigit(s[i])

\* The value of a string of hexadecimal digits.
RECURSIVE HexValue(_)
HexValue(s) ==
    IF s = <<>> THEN 0
    ELSE LET c == s[Len(s)]
             d == CASE c \in {"a", "A"} -> 10 [] c \in {"b", "B"} -> 11
                    [] c \in {"c", "C"} -> 12 [] c \in {"d", "D"} -> 13
                    [] c \in {"e", "E"} -> 14 [] c \in {"f", "F"} -> 15
                    [] OTHER -> CHOOSE n \in 0 .. 9 : HexDigits[n + 1] = c
         IN  16 * HexValue(SubSeq(s, 1, Len(s) - 1)) + d

\* Further fields: field names written with the letters d, c, s, p, i and
\* hexadecimal values.
IsFields(s) == \A i \in DOMAIN s : IsHexDigit(s[i]) \/ s[i] \in {"s", "p", "i"}

\* usb:vVVVVpPPPP, further hex-valued fields, and the interface field inNN
\* when hasInterface.
WellFormed(s, hasInterface) ==
    LET n == Len(s)
        e == IF hasInterface THEN n - 4 ELSE n
    IN  /\ e >= 14
        /\ SubSeq(s, 1, 5) = Str_usb_v
        /\ AllHex(SubSeq(s, 6, 9))
        /\ s[10] = "p"
        /\ AllHex(SubSeq(s, 11, 14))
        /\ IsFields(SubSeq(s, 15, e))
        /\ hasInterface =>
                /\ SubSeq(s, n - 3, n - 2) = <<"i", "n">>
                /\ AllHex(SubSeq(s, n - 1, n))

\* C7: for a well-formed device id, parse_modalias returns the vendor and
\* product values, the interface value when the in field is present and no
\* interface when it is not, and no serial number, manufacturer or product.
C7_WellFormedParsed ==
    minfo # Pending =>
        \A hasInterface \in BOOLEAN :
            WellFormed(moda, hasInterface) =>
                /\ minfo.tag = "Some"
                /\ minfo.vid = HexValue(SubSeq(moda, 6, 9))
                /\ minfo.pid = HexValue(SubSeq(moda, 11, 14))
                /\ minfo.interface =
                        IF hasInterface
                        THEN Some(HexValue(SubSeq(moda, Len(moda) - 1, Len(moda))))
                        ELSE None
                /\ minfo.serial_number = None
                /\ minfo.manufacturer = None
                /\ minfo.product = None

\* The canonical device id of the unit test, parsed.
C7_Witness ==
    /\ Len(moda) = 49
    /\ WellFormed(moda, TRUE)
    /\ minfo.tag = "Some"
    /\ minfo.vid = 12346
    /\ minfo.pid = 4097
    /\ minfo.interface = Some(12)

\* The number of characters of a string: its bytes that start a character.
CharCount(s) == Cardinality({i \in DOMAIN s : s[i] \notin ContinuationBytes})

\* Byte offsets at which pat occurs in s.
Occurrences(s, pat) ==
    {i \in 0 .. Len(s) - Len(pat) : \A j \in DOMAIN pat : s[i + j] = pat[j]}

\* The string after the first usb:v marker.
AfterMarker(s) ==
    LET m == CHOOSE i \in Occurrences(s, Str_usb_v) :
                \A j \in Occurrences(s, Str_usb_v) : i <= j
    IN  SubSeq(s, m + 6, Len(s))

\* A truncated device id: empty, without the marker, with fewer than 4
\* characters after it, or with a vendor field but no p that is followed by
\* 4 characters.
Truncated(s) ==
    \/ s = <<>>
    \/ Occurrences(s, Str_usb_v) = {}
    \/ CharCount(AfterMarker(s)) < 4
    \/ LET t == AfterMarker(s)
       IN  \A i \in DOMAIN t :
                (t[i] = "p" /\ CharCount(SubSeq(t, 1, i - 1)) >= 4)
                    => CharCount(SubSeq(t, i + 1, Len(t))) < 4

\* C8: parse_modalias yields no match for every truncated device id.
C8_TruncatedNoMatch ==
    (minfo # Pending /\ Truncated(moda)) => minfo = NoMatch

\* A device id cut inside its product field.
C8_Witness ==
    /\ moda = Str_usb_v \o <<"d", "c", "d", "c", "p", "a", "b">>
    /\ minfo = NoMatch

\* C9: parse_modalias returns a UsbPortInfo or no match for every input and
\* never panics.
C9_NeverPanics ==
    minfo # Pending => minfo.tag \in {"Some", "None"}

\* An input with a multi-byte character where the vendor field is sliced.
C9_Witness ==
    /\ Len(moda) >= 9
    /\ SubSeq(moda, 1, 5) = Str_usb_v
    /\ moda[9] = "xC3"
    /\ minfo = NoMatch

\* The fields of a device id in the documented format: vendor and product
\* of exactly 4 hexadecimal digits, an in marker followed by 2 of them.
StrictFields(s) ==
    /\ Occurrences(s, Str_usb_v) # {}
    /\ LET t == AfterMarker(s)
       IN  /\ Len(t) >= 9
           /\ AllHex(SubSeq(t, 1, 4))
           /\ t[5] = "p"
           /\ AllHex(SubSeq(t, 6, 9))
           /\ \A i \in Occurrences(t, <<"i", "n">>) :
                i >= 9 => /\ i + 4 <= Len(t)
                          /\ AllHex(SubSeq(t, i + 3, i + 4))

\* C10: parse_modalias returns a match only for strings whose vendor and
\* product fields are 4 hexadecimal digits each and whose in marker, if
\* present, is followed by 2 hexadecimal digits.
C10_MatchOnlyStrict ==
    (minfo # Pending /\ minfo.tag = "Some") => StrictFields(moda)

(***************************************************************************)
(* Claims about the udev classifier                                        *)
(***************************************************************************)
\* The device is on the USB bus and was classified as a USB port.
ClassifiedUsb ==
    /\ lookup.op = "port_type"
    /\ udev_property_as_string(device, "ID_BUS") = Some(Str_usb)
    /\ lookup.res.ok

\* The device's own properties yield a value: the escaped form decodes or
\* the simplified form is a string.
LiveYields(encoded_key, replaced_key) ==
    LET encoded == udev_property_as_string(device, encoded_key)
    IN  \/ encoded # None /\ unescape(encoded[1]) # None
        \/ udev_property_as_string(device, replaced_key) # None

\* C13: manufacturer and product of a device on the USB bus are the values of
\* the live lookup whenever it yields one, whatever the database holds, and
\* the database properties only when the live lookup yields none.
C13_DatabaseOnlyFillsAbsence ==
    ClassifiedUsb =>
        LET info == lookup.res.v.info
        IN  /\ LiveYields("ID_VENDOR_ENC", "ID_VENDOR") =>
                    info.manufacturer =
                        udev_property_encoded_or_replaced_as_string(
                            device, "ID_VENDOR_ENC", "ID_VENDOR")
            /\ ~LiveYields("ID_VENDOR_ENC", "ID_VENDOR") =>
                    info.manufacturer =
                        udev_property_as_string(device, "ID_VENDOR_FROM_DATABASE")
            /\ LiveYields("ID_MODEL_ENC", "ID_MODEL") =>
                    info.product =
                        udev_property_encoded_or_replaced_as_string(
                            device, "ID_MODEL_ENC", "ID_MODEL")
            /\ ~LiveYields("ID_MODEL_ENC", "ID_MODEL") =>
                    info.product =
                        udev_property_as_string(device, "ID_MODEL_FROM_DATABASE")

\* A device with a live manufacturer and a database manufacturer, and with a
\* product known to the database only.
C13_Witness ==
    /\ ClassifiedUsb
    /\ LiveYields("ID_VENDOR_ENC", "ID_VENDOR")
    /\ property_value(device, "ID_VENDOR_FROM_DATABASE") = Some(OsStr(<<"D", "b", "_", "A">>))
    /\ lookup.res.v.info.manufacturer = Some(<<"A", " ", "B">>)
    /\ ~LiveYields("ID_MODEL_ENC", "ID_MODEL")
    /\ lookup.res.v.info.product = Some(<<"D", "b", "_", "M">>)

\* Underscores written as spaces.
SpacesRestored(v) == [i \in DOMAIN v |-> IF v[i] = "_" THEN " " ELSE v[i]]

\* C14: the lookup of a two-flavour property returns the escaped form as
\* decoded whenever it is present and unescapes, and otherwise the simplified
\* form with its underscores restored to spaces.
C14_EscapedAsDecoded ==
    lookup.op = "encoded_or_replaced" =>
        LET encoded == udev_property_as_string(device, lookup.encoded_key)
            decoded == IF encoded = None THEN None ELSE unescape(encoded[1])
            replaced == udev_property_as_string(device, lookup.replaced_key)
        IN  /\ decoded # None => lookup.res = decoded
            /\ (decoded = None /\ replaced # None) =>
                    lookup.res = Some(SpacesRestored(replaced[1]))
            /\ (decoded = None /\ replaced = None) => lookup.res = None

(***************************************************************************)
(* Claims about available_ports                                            *)
(***************************************************************************)
\* C11: available_ports returns an error only from its setup, before any
\* candidate was taken: a failure while one candidate is examined never makes
\* the call return an error.
C11_OneDeviceNeverFailsScan ==
    (ret # None /\ ~ret[1].ok) => pos = 0

\* The udev scan went over all its candidates and returned its list.
UdevScanned ==
    /\ platform = "udev"
    /\ pc = "returned"
    /\ pos = Len(candidates)
    /\ ret = Some(ResultOk(vec))

\* The device was discovered as a usable serial device: it has a parent and
\* a device node with a UTF-8 path, and it is no serial8250 node that fails
\* to open.
Discovered(d) ==
    /\ d.parents # <<>>
    /\ d.devnode # None
    /\ d.devnode[1].utf8
    /\ ~(/\ d.parents[1].driver = Some(OsStr(Str_serial8250))
         /\ ~d.opens)

\* The property is present and reads as a 16-bit hexadecimal number.
ReadableId(d, key) == udev_hex_property_as_int(d, key, u16_MAX).ok

\* The device is a USB device whose vendor or product ID cannot be read.
IdUnreadable(d) ==
    LET bus == udev_property_as_string(d, "ID_BUS")
    IN  \/ /\ bus = Some(Str_usb)
           /\ ~(ReadableId(d, "ID_VENDOR_ID") /\ ReadableId(d, "ID_MODEL_ID"))
        \/ /\ bus = Some(Str_pci)
           /\ \A k \in {"ID_USB_VENDOR_ID", "ID_USB_MODEL_ID", "ID_USB_VENDOR",
                        "ID_USB_MODEL", "ID_USB_SERIAL_SHORT"} :
                    property_value(d, k) # None
           /\ ~(ReadableId(d, "ID_USB_VENDOR_ID") /\ ReadableId(d, "ID_USB_MODEL_ID"))

\* The entries of the list named as the device node of d.
EntriesOf(d) == {j \in DOMAIN vec : vec[j].port_name = d.devnode[1].s}

\* C12 as stated: every discovered device is in the list of the udev scan,
\* and one whose vendor or product ID cannot be read is there with port type
\* Unknown.
C12_UnclassifiedReportedUnknown ==
    UdevScanned =>
        \A i \in DOMAIN candidates :
            Discovered(candidates[i]) =>
                \E j \in EntriesOf(candidates[i]) :
                    IdUnreadable(candidates[i]) => vec[j].port_type = UnknownPort

\* C12, amended: the udev scan omits a discovered USB device whose vendor or
\* product ID cannot be read and lists every other discovered device; a listed
\* device has port type Unknown only if its ID_BUS is neither usb nor pci.
C12_UnreadableIdsOmitted ==
    UdevScanned =>
        \A i \in DOMAIN candidates :
            Discovered(candidates[i]) =>
                /\ IdUnreadable(candidates[i]) <=> EntriesOf(candidates[i]) = {}
                /\ \A j \in EntriesOf(candidates[i]) :
                        vec[j].port_type = UnknownPort =>
                            udev_property_as_string(candidates[i], "ID_BUS")
                                \notin {Some(Str_usb), Some(Str_pci)}

\* A scan of a USB device with an unreadable ID, which is omitted, and of a
\* device on another bus, which is listed as Unknown.
C12_Witness ==
    /\ UdevScanned
    /\ \E i, k \in DOMAIN candidates :
            /\ Discovered(candidates[i])
            /\ IdUnreadable(candidates[i])
            /\ EntriesOf(candidates[i]) = {}
            /\ Discovered(candidates[k])
            /\ \E j \in EntriesOf(candidates[k]) : vec[j].port_type = UnknownPort

UsbEntryOf(service) ==
    LET host == {i \in DOMAIN service.registry :
                    service.registry[i].class = Class_IOUSBHostInterface}
        legacy == {i \in DOMAIN service.registry :
                    service.registry[i].class = Class_IOUSBDevice}
        first(S) == CHOOSE i \in S : \A k \in S : i <= k
    IN  IF host # {} THEN service.registry[first(host)]
        ELSE service.registry[first(legacy)]

\* The ID is in the metadata as a 16-bit number.
IdRead(entry, key) ==
    /\ entry.props[key].cf = "number"
    /\ entry.props[key].n \in 0..u16_MAX

\* The candidates an entry of the list was made from.
OwnersOf(entry) ==
    {i \in DOMAIN candidates :
        IF platform = "macos"
        THEN \E key \in {"IOCalloutDevice", "IODialinDevice"} :
                candidates[i][key] = PathOf(entry.port_name)
        ELSE candidates[i].devnode = Some(OsStr(entry.port_name))}

\* C20: the vendor and product ID of every entry listed as a USB port are
\* those read from the device's metadata: on macOS the idVendor and idProduct
\* numbers of its USB registry entry, under udev the hex properties of a
\* device on the usb or pci bus.
C20_IdsAsRead ==
    platform \in {"macos", "udev"} =>
        \A j \in DOMAIN vec :
            vec[j].port_type.type = "UsbPort" =>
                \A i \in OwnersOf(vec[j]) :
                    LET info == vec[j].port_type.info
                        c == candidates[i]
                    IN  IF platform = "macos"
                        THEN /\ IdRead(UsbEntryOf(c), "idVendor")
                             /\ IdRead(UsbEntryOf(c), "idProduct")
                             /\ info.vid = UsbEntryOf(c).props["idVendor"].n
                             /\ info.pid = UsbEntryOf(c).props["idProduct"].n
                        ELSE udev_property_as_string(c, "ID_BUS") # None =>
                                ~IdUnreadable(c)

(***************************************************************************)
(* Claims about an open port                                               *)
(***************************************************************************)
\* C15: every call through a `&mut T` returns the result and leaves the
\* device and the handles in the state of the same operation called with the
\* same argument on the port itself.
C15_ForwardsUnchanged ==
    [][invoked'.via = "ref" =>
        LET direct == SerialPort_call(invoked'.op, invoked'.arg,
                                      invoked'.handle, native, handles)
        IN  /\ invoked'.result = direct.result
            /\ native' = direct.native
            /\ handles' = direct.handles]_vars

\* read_data_set_ready called through the reference of a port whose DSR and
\* CTS lines differ.
C15_Witness ==
    /\ invoked.op = "read_data_set_ready"
    /\ invoked.via = "ref"
    /\ native.dsr # native.cts
    /\ invoked.result = ResultOk(native.dsr)

\* C17: on a platform without arbitrary rates, set_baud_rate with a
\* non-standard rate fails, and the handle reports the baud rate it reported
\* before the call: a port that passed check_baud_rate for RESET_BAUD_RATE
\* still passes it.
C17_RejectedRateKeepsBaud ==
    [][(/\ invoked'.op = "set_baud_rate"
        /\ ~native.arbitrary_rates
        /\ invoked'.arg \in non_standard_baud_rates) =>
            /\ ~invoked'.result.ok
            /\ SerialPort_call("baud_rate", Unit, invoked'.handle,
                               native', handles').result
                 = SerialPort_call("baud_rate", Unit, invoked'.handle,
                                   native, handles).result
            /\ check_baud_rate(invoked'.handle, native, handles, RESET_BAUD_RATE)
                 => check_baud_rate(invoked'.handle, native', handles',
                                    RESET_BAUD_RATE)]_vars

\* The first call on a port opened at RESET_BAUD_RATE on such a platform is
\* a rejected set_baud_rate(1_000).
C17_Witness ==
    /\ ncalls = 1
    /\ invoked.op = "set_baud_rate"
    /\ invoked.arg = 1000
    /\ ~native.arbitrary_rates
    /\ ~invoked.result.ok
    /\ check_baud_rate(1, native, handles, RESET_BAUD_RATE)

\* C18: try_clone adds a handle with a cache of its own to the same device,
\* and a setter called on one handle leaves the cache of every other handle
\* as it was.
C18_CachesNotSynchronized ==
    [][/\ invoked'.op = "try_clone" =>
            /\ native' = native
            /\ handles' = Append(handles, handles[invoked'.handle])
       /\ invoked'.op \in Setters =>
            \A k \in DOMAIN handles :
                k # invoked'.handle => handles'[k] = handles[k]]_vars

\* After a setting change through each of the two handles, the cache of
\* each handle differs from the settings of the device.
C18_Witness ==
    /\ Len(handles) = 2
    /\ handles[1] # CacheOf(native)
    /\ handles[2] # CacheOf(native)

(***************************************************************************)
(* Claims about the loopback                                               *)
(***************************************************************************)
\* The sender sends 8 data bits without parity and the receiver takes 7 data
\* bits and a parity bit.
Emulated ==
    /\ sender.settings = LineSettings("Eight", "None")
    /\ receiver.settings.data_bits = "Seven"
    /\ receiver.settings.parity # "None"

C21_FiveParityModes ==
    builder # NoBuilder =>
        \A mode \in LinkParity :
            /\ mode \in Parity
            /\ parity(builder, mode).parity = mode

(***************************************************************************)
(* Claims about the serial8250 check of the udev enumerator                *)
(***************************************************************************)
\* The udev loop reached the driver check for the device: it has a parent and
\* a device node with a UTF-8 path.
Examined(d) ==
    /\ d.parents # <<>>
    /\ d.devnode # None
    /\ d.devnode[1].utf8

\* The parent of the device has the driver serial8250.
Legacy8250(d) == d.parents[1].driver = Some(OsStr(Str_serial8250))

\* The scan called open() on the node of the device at 9600 baud.
OpenAttempted(d) ==
    \E k \in DOMAIN opened : opened[k] = new(d.devnode[1].s, 9600)

\* The scan called open() on the node of the device at some baud rate.
AnyOpenAttempted(d) ==
    \E k \in DOMAIN opened : opened[k].path = d.devnode[1].s

\* C22 as stated: a device below a serial8250 parent is opened at 9600 baud
\* and is in the list only if the open succeeds; a device below any other
\* parent is never opened and is in the list.
C22_OtherDriversReported ==
    platform = "udev" =>
        \A i \in 1..pos :
            Examined(candidates[i]) =>
                IF Legacy8250(candidates[i])
                THEN /\ OpenAttempted(candidates[i])
                     /\ EntriesOf(candidates[i]) # {} => candidates[i].opens
                ELSE /\ ~AnyOpenAttempted(candidates[i])
                     /\ EntriesOf(candidates[i]) # {}

\* C22, amended: a device below a serial8250 parent is opened at 9600 baud
\* and skipped if the open fails; a device below any other parent is never
\* opened; a device that is not skipped is in the list, with the port type
\* port_type gives it, exactly when port_type succeeds.
C22_DriverDecidesOpen ==
    platform = "udev" =>
        \A i \in 1..pos :
            Examined(candidates[i]) =>
                /\ IF Legacy8250(candidates[i])
                   THEN /\ OpenAttempted(candidates[i])
                        /\ EntriesOf(candidates[i]) # {} <=>
                                (candidates[i].opens /\ port_type(candidates[i]).ok)
                   ELSE /\ ~AnyOpenAttempted(candidates[i])
                        /\ EntriesOf(candidates[i]) # {} <=> port_type(candidates[i]).ok
                /\ \A j \in EntriesOf(candidates[i]) :
                        vec[j].port_type = port_type(candidates[i]).v

\* A scan that skipped a serial8250 node failing to open and listed, without
\* opening it, a node below another driver that would fail to open as well.
C22_Witness ==
    /\ platform = "udev"
    /\ pos = Len(candidates)
    /\ \E i, k \in DOMAIN candidates :
            /\ Examined(candidates[i])
            /\ Legacy8250(candidates[i])
            /\ ~candidates[i].opens
            /\ OpenAttempted(candidates[i])
            /\ EntriesOf(candidates[i]) = {}
            /\ Examined(candidates[k])
            /\ candidates[k].parents[1].driver # None
            /\ ~Legacy8250(candidates[k])
            /\ ~candidates[k].opens
            /\ ~AnyOpenAttempted(candidates[k])
            /\ EntriesOf(candidates[k]) # {}

(***************************************************************************)
(* Claims about the iterator over the parents of a device instance         *)
(***************************************************************************)
\* The handle the iterator was created from: the instance it holds before the
\* first call of next(), the instance of the first parent query after it.
HandleOf == IF queried = <<>> THEN iterator.instance[1] ELSE queried[1]

\* The successive parents of an instance, nearest first, up to the first
\* parent query that does not succeed.
RECURSIVE ParentChain(_, _)
ParentChain(tree, i) ==
    IF tree[i].status = CR_SUCCESS
    THEN <<tree[i].parent>> \o ParentChain(tree, tree[i].parent)
    ELSE <<>>

\* C23: the calls of next() on an iterator created from the handle h yield
\* the successive parents of h, nearest first and never h, up to the first
\* parent query whose status is not CR_SUCCESS, and None from then on; the
\* parent queries are one for h and one for each parent yielded, none after
\* next() returned None.
C23_YieldsParentChain ==
    iterator # Idle =>
        LET parents == ParentChain(devtree, HandleOf)
            n == Len(yielded)
            asked == <<HandleOf>> \o parents
        IN  /\ \A k \in 1..n :
                    /\ yielded[k] = IF k <= Len(parents) THEN Some(parents[k]) ELSE None
                    /\ yielded[k] # Some(HandleOf)
            /\ queried = SubSeq(asked, 1, IF n < Len(asked) THEN n ELSE Len(asked))

\* An iterator that yielded two parents, ended at a failing query of an
\* instance that is not the root, and was called twice more.
C23_Witness ==
    /\ iterator # Idle
    /\ Len(ParentChain(devtree, HandleOf)) = 2
    /\ ParentChain(devtree, HandleOf)[2] # 1
    /\ Len(yielded) = 5
    /\ yielded[3] = None
    /\ yielded[5] = None
    /\ Len(queried) = 3

(***************************************************************************)
(* Claims about the search for the USB interface among the ancestors       *)
(***************************************************************************)
\* The ancestors the loop of find_usb_interface_from_parents can examine the
\* device type of, and those it can end at: QueryDepth iterations, each
\* taking at most one parent step.
Examinable(parents) ==
    1..(IF Len(parents) < QueryDepth THEN Len(parents) ELSE QueryDepth)

Reachable(parents) ==
    1..(IF Len(parents) < QueryDepth + 1 THEN Len(parents) ELSE QueryDepth + 1)

\* C24: find_usb_interface_from_parents ends within three iterations of its
\* loop: the device it returns is the device it was given or one at most
\* three parent steps above it, however deep the tree is, and it returns no
\* device only when it was given none or when a device type it examined in
\* these iterations is not valid UTF-8.
C24_BoundedQueryDepth ==
    device # Idle =>
        LET parents == device.parents
            found == find_usb_interface_from_parents(parents)
        IN  /\ found # None =>
                    \E i \in Reachable(parents) : found[1] = parents[i]
            /\ found = None =>
                    \/ parents = <<>>
                    \/ \E i \in Examinable(parents) :
                            /\ parents[i].devtype # None
                            /\ to_str(parents[i].devtype[1]) = None

\* A device classified below five ancestors, the first four of them no USB
\* interface and the fifth unlike them: the search ends at the fourth.
C24_Witness ==
    /\ device # Idle
    /\ lookup # Unclassified
    /\ lookup.op = "port_type"
    /\ Len(device.parents) = 5
    /\ \A i \in 1..4 : device.parents[i] # device.parents[5]
    /\ find_usb_interface_from_parents(device.parents) = Some(device.parents[4])

\* C25: a device find_usb_interface_from_parents returns has the device type
\* usb_interface, so a device without ID_BUS that port_type classifies as a
\* USB port got its MODALIAS from a USB interface among its ancestors.
C25_FoundIsUsbInterface ==
    device # Idle =>
        LET found == find_usb_interface_from_parents(device.parents)
        IN  /\ found # None => found[1].devtype = Some(OsStr(Str_usb_interface))
            /\ (/\ lookup # Unclassified
                /\ lookup.op = "port_type"
                /\ property_value(device, "ID_BUS") = None
                /\ lookup.res.ok
                /\ lookup.res.v \notin {PciPort, BluetoothPort, UnknownPort})
               => /\ found # None
                  /\ found[1].devtype = Some(OsStr(Str_usb_interface))

(***************************************************************************)
(* Claims about the buses of the udev classifier                           *)
(***************************************************************************)
\* port_type was called on the device.
Classified ==
    /\ lookup # Idle
    /\ lookup # Unclassified
    /\ lookup.op = "port_type"

\* The five properties of a USB device reported at the PCI bus are present.
FiveUsbProperties ==
    \A key \in {"ID_USB_VENDOR_ID", "ID_USB_MODEL_ID", "ID_USB_VENDOR",
                "ID_USB_MODEL", "ID_USB_SERIAL_SHORT"} :
        property_value(device, key) # None

\* The result is a USB port with the IDs parsed from the two properties.
UsbWithIds(res, vendor_key, product_key) ==
    /\ res.ok
    /\ res.v \notin {PciPort, BluetoothPort, UnknownPort}
    /\ ReadableId(device, vendor_key)
    /\ ReadableId(device, product_key)
    /\ res.v.info.vid = udev_hex_property_as_int(device, vendor_key, u16_MAX).v
    /\ res.v.info.pid = udev_hex_property_as_int(device, product_key, u16_MAX).v

\* The classification of a device with ID_BUS pci: PciPort exactly when one
\* of the five properties is absent, else a USB port with the parsed IDs or
\* an error.
PciClassified ==
    property_value(device, "ID_BUS") = Some(OsStr(Str_pci)) =>
        /\ lookup.res = ResultOk(PciPort) <=> ~FiveUsbProperties
        /\ FiveUsbProperties =>
                \/ ~lookup.res.ok
                \/ UsbWithIds(lookup.res, "ID_USB_VENDOR_ID", "ID_USB_MODEL_ID")

\* C26 as stated: PciClassified, and a device whose ID_BUS has any value
\* other than usb and pci is classified as Unknown.
C26_OtherBusValuesUnknown ==
    Classified =>
        /\ PciClassified
        /\ (/\ property_value(device, "ID_BUS") # None
            /\ property_value(device, "ID_BUS")
                    \notin {Some(OsStr(Str_usb)), Some(OsStr(Str_pci))})
           => lookup.res = ResultOk(UnknownPort)

\* C26, amended: PciClassified; a device whose ID_BUS is a UTF-8 value other
\* than usb and pci is classified as Unknown; a device whose ID_BUS is not
\* valid UTF-8 is classified as a device without ID_BUS is, from the MODALIAS
\* of the ancestor found.
C26_PciAndOtherBuses ==
    Classified =>
        /\ PciClassified
        /\ (/\ property_value(device, "ID_BUS") # None
            /\ property_value(device, "ID_BUS")
                    \notin {Some(OsStr(Str_usb)), Some(OsStr(Str_pci))})
           => IF property_value(device, "ID_BUS")[1].utf8
              THEN lookup.res = ResultOk(UnknownPort)
              ELSE lookup.res = port_type_none(device)

\* A classified device on the PCI bus with the five properties, reported as
\* a USB port with the IDs of ID_USB_VENDOR_ID and ID_USB_MODEL_ID.
C26_Witness ==
    /\ Classified
    /\ property_value(device, "ID_BUS") = Some(OsStr(Str_pci))
    /\ FiveUsbProperties
    /\ UsbWithIds(lookup.res, "ID_USB_VENDOR_ID", "ID_USB_MODEL_ID")

(***************************************************************************)
(* Claims about the macOS classifier                                       *)
(***************************************************************************)
\* The port type the priority of the classes gives a service with its
\* registry ancestors: USB before Bluetooth before PCI.
PriorityType(registry) ==
    IF \E i \in DOMAIN registry :
            registry[i].class \in {Class_IOUSBHostInterface, Class_IOUSBDevice}
    THEN "UsbPort"
    ELSE IF \E i \in DOMAIN registry :
                registry[i].class = Class_IOBluetoothSerialClient
    THEN "BluetoothPort"
    ELSE "PciPort"

\* The entries of the returned list named as the value of the key of the
\* service.
ReportedUnder(service, key) ==
    IF service[key].found /\ service[key].cf = "string" /\ service[key].cstring # None
    THEN {j \in DOMAIN ret[1].v : ret[1].v[j].port_name = service[key].cstring[1]}
    ELSE {}

\* C27: a scan on macOS that went over matching services reports each of
\* them twice, once under its callout device path and once under its dial-in
\* device path, both with the port type of the priority USB, Bluetooth, PCI
\* over the classes of the service and its registry ancestors.
C27_PriorityAndTwoEntries ==
    (platform = "macos" /\ pc = "returned" /\ pos > 0) =>
        /\ ret[1].ok
        /\ \A i \in DOMAIN candidates :
                \A key \in {"IOCalloutDevice", "IODialinDevice"} :
                    /\ Cardinality(ReportedUnder(candidates[i], key)) = 1
                    /\ \A j \in ReportedUnder(candidates[i], key) :
                            ret[1].v[j].port_type.type =
                                PriorityType(candidates[i].registry)

(***************************************************************************)
(* Claims about targets without a backend                                  *)
(***************************************************************************)
\* The result is an error of kind Unknown.
IsUnknownError(result) == ~result.ok /\ result.e.kind = Unknown

\* C28: on a target that is neither unix nor windows open() and
\* available_ports() return an error of kind Unknown, and so does
\* available_ports() on a unix target that is none of macOS, iOS, Linux and
\* FreeBSD; none of them returns a port or a list.
C28_NoBackendIsUnknownError ==
    platform \in Targets =>
        /\ (platform.family = "other" /\ call.op = "open")
                => IsUnknownError(call.result)
        /\ (platform.family = "other" /\ ret # None)
                => IsUnknownError(ret[1])
        /\ (/\ platform.family = "unix"
            /\ platform.target_os \notin {"macos", "ios", "linux", "freebsd"}
            /\ ret # None)
                => IsUnknownError(ret[1])

\* Both calls were made on a target that is neither unix nor windows.
C28_Witness ==
    /\ platform \in Targets
    /\ platform.family = "other"
    /\ call.op = "open"
    /\ IsUnknownError(call.result)
    /\ ret # None
    /\ IsUnknownError(ret[1])

(***************************************************************************)
(* Claims about the band of accepted baud rates                            *)
(***************************************************************************)
\* The number a u32 below 2^31 stands for.
NumberOf(a) == a.hi * (u16_MAX + 1) + a.lo

\* The band is b - b/200 up to b + b/200 for b at most 1,000,000 and
\* b - b/33 up to b + b/33 above; stated for the rates below 2^30.
BandAsStated(baud, range) ==
    baud.hi < 16384 =>
        LET b == NumberOf(baud)
            delta == IF b > 1000000 THEN b \div 33 ELSE b \div 200
        IN  /\ NumberOf(range.start) = b - delta
            /\ NumberOf(range.end) = b + delta

\* C29: for every 32-bit baud rate b the band is computed without overflow,
\* is b minus b/200 (b/33 above 1,000,000) up to b plus as much, and
\* contains b, so check_baud_rate passes for a port that reports exactly b.
C29_BandContainsRequested ==
    /\ (call # Idle /\ call.op = "accepted_actual_baud_for") =>
            /\ call.result # Panicked
            /\ BandAsStated(call.baud, call.result)
            /\ contains(call.result, call.baud)
    /\ (call # Idle /\ call.op = "check_baud_rate" /\ call.actual = call.baud) =>
            call.result = "passed"

(***************************************************************************)
(* Claims about sequences of setter calls                                  *)
(***************************************************************************)
\* The positions of the calls of the setter of the field in the sequence.
CallsOf(field) == {i \in 2..Len(chain) : chain[i].op = field}

\* The argument of the last call of the setter of the field, or the value
\* new gave the field if its setter was never called.
LastValue(field) ==
    IF CallsOf(field) = {}
    THEN new(chain[1].path, chain[1].baud_rate)[field]
    ELSE chain[CHOOSE i \in CallsOf(field) : \A j \in CallsOf(field) : j <= i].arg

\* C30: after any sequence of setter calls on a builder from new(p, b) every
\* field has the argument of the last call of its setter, or the value new
\* gave it; so setters of different fields commute, a repeated setter call
\* changes nothing, and the builder equals any builder with the same last
\* values.
C30_LastSetterCallWins ==
    chain # <<>> =>
        /\ builder = [field \in BuilderFields |-> LastValue(field)]
        /\ \A f, g \in BuilderFields :
                \A a \in SetterArgs(f), b \in SetterArgs(g) :
                    /\ f # g => Setter(g, Setter(f, builder, a), b)
                                    = Setter(f, Setter(g, builder, b), a)
                    /\ Setter(f, Setter(f, builder, a), a) = Setter(f, builder, a)

\* A sequence that calls one setter twice with different arguments, with a
\* call of another setter between the two.
C30_Witness ==
    /\ Len(chain) = 4
    /\ chain[2].op = chain[4].op
    /\ chain[2].arg # chain[4].arg
    /\ chain[3].op # chain[2].op
    /\ builder[chain[4].op] = chain[4].arg
    /\ builder[chain[3].op] = chain[3].arg

====
